---- MODULE Spec2Model ----
(***************************************************************************)
(* A model of the customs daily-summary automation: the retrying HTTP      *)
(* helper, the paginated list fetchers, the batched detail fetch, the      *)
(* customs classifiers, the summary formatter, the WhatsApp senders, the   *)
(* entry points and the Redis repair scripts, each translated from its     *)
(* source.                                                                 *)
(*                                                                         *)
(* Text is a sequence of one-character strings, so that lower(), the `in`  *)
(* substring test and str.replace are computed character by character.     *)
(***************************************************************************)
EXTENDS Integers, Sequences, FiniteSets, TLC

----------------------------------------------------------------------------
\* Text primitives (Python str semantics)

UpperChars ==
    <<"A","B","C","D","E","F","G","H","I","J","K","L","M","N","O","P","Q","R","S","T",
      "U","V","W","X","Y","Z","Â","Ã","Ç","Í">>

LowerChars ==
    <<"a","b","c","d","e","f","g","h","i","j","k","l","m","n","o","p","q","r","s","t",
      "u","v","w","x","y","z","â","ã","ç","í">>

\* str.lower() on one character
LowerChar(c) ==
    IF \E i \in 1..Len(UpperChars) : UpperChars[i] = c
    THEN LowerChars[CHOOSE i \in 1..Len(UpperChars) : UpperChars[i] = c]
    ELSE c

\* str.lower()
Lower(s) == [i \in 1..Len(s) |-> LowerChar(s[i])]

\* s[i:].startswith(sub), i counted from 1
MatchAt(s, sub, i) ==
    /\ i + Len(sub) - 1 <= Len(s)
    /\ \A j \in 1..Len(sub) : s[i + j - 1] = sub[j]

\* `sub in s`
Contains(s, sub) == \E i \in 1..(Len(s) + 1) : MatchAt(s, sub, i)

\* s.replace(old, new) for a non-empty old: left to right, non-overlapping
RECURSIVE ReplaceFrom(_, _, _, _)
ReplaceFrom(s, old, new, i) ==
    IF i > Len(s) THEN << >>
    ELSE IF MatchAt(s, old, i)
         THEN new \o ReplaceFrom(s, old, new, i + Len(old))
         ELSE <<s[i]>> \o ReplaceFrom(s, old, new, i + 1)

Replace(s, old, new) == ReplaceFrom(s, old, new, 1)

\* sep.join(parts)
RECURSIVE Join(_, _)
Join(parts, sep) ==
    IF Len(parts) = 0 THEN << >>
    ELSE IF Len(parts) = 1 THEN parts[1]
    ELSE parts[1] \o sep \o Join(Tail(parts), sep)

\* any(item == x for item in list)
InList(x, list) == \E i \in 1..Len(list) : list[i] = x

\* any(keyword in text for keyword in keywords)
AnyKeywordIn(keywords, text) == \E i \in 1..Len(keywords) : Contains(text, keywords[i])

----------------------------------------------------------------------------
\* Text literals of the program

\* (a character outside the basic plane is written by its code point, "U+1F4E6")

\* CustomsSummary.customs_keywords (customs_summary.py:34-42)
cs_customs_keywords ==
    << <<"c","u","s","t","o","m","s">>,
       <<"t","a","x","a">>,
       <<"i","m","p","o","s","t","o">>,
       <<"t","r","i","b","u","t","a","ç","ã","o">>,
       <<"a","l","f","â","n","d","e","g","a">>,
       <<"f","i","s","c","a","l","i","z","a","ç","ã","o">>,
       <<"a","u","t","o","r","i","d","a","d","e"," ","c","o","m","p","e","t","e","n","t","e">> >>

\* the status list of check_taxation (customs_summary.py:199)
cs_problem_status ==
    << <<"a","l","e","r","t">>,
       <<"e","x","p","i","r","e","d">>,
       <<"u","n","d","e","l","i","v","e","r","e","d">> >>

\* TrackingService.customs_status (tracking_service.py:10-15)
ts_customs_status ==
    << <<"I","n","T","r","a","n","s","i","t","_","C","u","s","t","o","m","s","P","r","o","c",
         "e","s","s","i","n","g">>,
       <<"E","x","c","e","p","t","i","o","n","_","S","e","c","u","r","i","t","y">>,
       <<"D","e","l","i","v","e","r","y","F","a","i","l","u","r","e","_","S","e","c","u","r",
         "i","t","y">>,
       <<"C","u","s","t","o","m","s","H","o","l","d">> >>

\* TrackingService.customs_keywords (tracking_service.py:18-28)
ts_customs_keywords ==
    << <<"c","u","s","t","o","m","s">>,
       <<"t","a","x">>,
       <<"c","l","e","a","r","a","n","c","e">>,
       <<"a","l","f","â","n","d","e","g","a">>,
       <<"t","a","x","a">>,
       <<"i","m","p","o","s","t","o">>,
       <<"t","r","i","b","u","t","a","ç","ã","o">>,
       <<"d","e","s","e","m","b","a","r","a","ç","o">>,
       <<"d","e","c","l","a","r","a","ç","ã","o">> >>

\* the phrase table of translate_event, in dict order (customs_summary.py:216-227)
translations ==
    << << <<"I","m","p","o","r","t"," ","c","u","s","t","o","m","s"," ","c","l","e","a","r","a",
            "n","c","e"," ","d","e","l","a","y">>,
          <<"A","t","r","a","s","o"," ","n","o"," ","d","e","s","e","m","b","a","r","a","ç","o",
            " ","a","d","u","a","n","e","i","r","o">> >>,
       << <<"C","u","s","t","o","m","s"," ","d","u","t","i","e","s"," ","p","a","y","m","e","n",
            "t"," ","r","e","q","u","e","s","t","e","d">>,
          <<"P","a","g","a","m","e","n","t","o"," ","d","e"," ","t","a","x","a","s"," ","a","l",
            "f","a","n","d","e","g","á","r","i","a","s"," ","s","o","l","i","c","i","t",
            "a","d","o">> >>,
       << <<"P","a","c","k","a","g","e"," ","r","e","t","u","r","n","i","n","g"," ","t","o"," ",
            "s","e","n","d","e","r">>,
          <<"P","a","c","o","t","e"," ","r","e","t","o","r","n","a","n","d","o"," ","a","o"," ",
            "r","e","m","e","t","e","n","t","e">> >>,
       << <<"C","a","r","r","i","e","r"," ","n","o","t","e">>,
          <<"N","o","t","a"," ","d","a"," ","t","r","a","n","s","p","o","r","t","a","d","o","r",
            "a">> >>,
       << <<"A","w","a","i","t","i","n","g"," ","p","a","y","m","e","n","t">>,
          <<"A","g","u","a","r","d","a","n","d","o"," ","p","a","g","a","m","e","n","t","o">> >>,
       << <<"D","e","v","o","l","u","ç","ã","o"," ","d","e","t","e","r","m","i","n","a","d","a",
            " ","p","e","l","a"," ","a","u","t","o","r","i","d","a","d","e"," ","c","o",
            "m","p","e","t","e","n","t","e">>,
          <<"D","e","v","o","l","u","ç","ã","o"," ","d","e","t","e","r","m","i","n","a","d","a",
            " ","p","e","l","a"," ","a","u","t","o","r","i","d","a","d","e"," ","c","o",
            "m","p","e","t","e","n","t","e">> >>,
       << <<"I","m","p","o","r","t"," ","c","u","s","t","o","m","s"," ","r","e","t","a","i","n",
            "e","d">>,
          <<"R","e","t","i","d","o"," ","n","a"," ","a","l","f","â","n","d","e","g","a">> >>,
       << <<"I","m","p","o","r","t"," ","c","u","s","t","o","m","s"," ","c","l","e","a","r","a",
            "n","c","e"," ","c","o","m","p","l","e","t","e">>,
          <<"D","e","s","e","m","b","a","r","a","ç","o"," ","a","d","u","a","n","e","i","r","o",
            " ","c","o","n","c","l","u","í","d","o">> >>,
       << <<"P","e","n","d","i","n","g"," ","c","u","s","t","o","m","s"," ","i","n","s","p","e",
            "c","t","i","o","n">>,
          <<"A","g","u","a","r","d","a","n","d","o"," ","i","n","s","p","e","ç","ã","o"," ","a",
            "d","u","a","n","e","i","r","a">> >>,
       << <<"C","u","s","t","o","m","s"," ","c","h","a","r","g","e","s"," ","d","u","e">>,
          <<"T","a","x","a","s"," ","a","l","f","a","n","d","e","g","á","r","i","a","s"," ","p",
            "e","n","d","e","n","t","e","s">> >> >>

\* customs_summary.py:239
NoPendingText ==
    <<"N","e","n","h","u","m"," ","p","a","c","o","t","e"," ","c","o","m"," ","p","e","n",
      "d","ê","n","c","i","a","s",".">>

\* customs_summary.py:261
ReturningText ==
    <<"r","e","t","o","r","n","a","n","d","o"," ","a","o"," ","r","e","m","e","t","e","n",
      "t","e">>

\* customs_summary.py:281
HeaderText ==
    <<"U+1F4E6"," ","*","R","e","s","u","m","o"," ","d","e"," ","P","a","c","o","t","e","s",
      "*","\n">>

\* customs_summary.py:284
TaxasHeaderText ==
    <<"\n","U+1F4B0"," ","*","T","a","x","a","s"," ","P","e","n","d","e","n","t","e","s",
      ":","*","\n">>

\* customs_summary.py:287
StatusPrefixText ==
    <<"\n","\n","_","S","t","a","t","u","s",":"," ">>

\* customs_summary.py:290
AlertaHeaderText ==
    <<"\n","\n","U+26A0","U+FE0F"," ","*","E","m"," ","A","l","e","r","t","a",":","*","\n">>

\* customs_summary.py:294
ProblemasHeaderText ==
    <<"\n","\n","U+274C"," ","*","C","o","m"," ","P","r","o","b","l","e","m","a","s",":",
      "*","\n">>

\* customs_summary.py:253
NAText ==
    <<"N","/","A">>

\* str(None), what an f-string prints for a null number
NoneText ==
    <<"N","o","n","e">>

\* python/customs_summary.py:20-21
PyNoPendingText ==
    <<"R","e","s","u","m","o"," ","D","i","á","r","i","o"," ","d","e"," ","T","a","x","a",
      "s"," ","P","e","n","d","e","n","t","e","s","\n","\n","N","e","n","h","u","m"," ",
      "p","a","c","o","t","e"," ","a","g","u","a","r","d","a","n","d","o"," ","p","a",
      "g","a","m","e","n","t","o"," ","d","e"," ","t","a","x","a"," ","n","a"," ","a",
      "l","f","â","n","d","e","g","a",".">>

\* python/customs_summary.py:29-30
PyHeaderText ==
    <<"R","e","s","u","m","o"," ","D","i","á","r","i","o"," ","d","e"," ","T","a","x","a",
      "s"," ","P","e","n","d","e","n","t","e","s","\n","\n","T","o","t","a","l"," ","d",
      "e"," ","p","a","c","o","t","e","s"," ","a","g","u","a","r","d","a","n","d","o",
      " ","p","a","g","a","m","e","n","t","o",":"," ">>

\* python/customs_summary.py:30-31
PyCodesText ==
    <<"\n","\n","C","ó","d","i","g","o","s"," ","d","e"," ","r","a","s","t","r","e","a","m",
      "e","n","t","o",":","\n">>


----------------------------------------------------------------------------
\* JSON values as the code sees them: a field is a string, null, a number
\* (any non-string scalar) or absent from its dict.

Str(s) == [tag |-> "str", s |-> s]
Null == [tag |-> "null", s |-> << >>]
Num == [tag |-> "num", s |-> << >>]
Missing == [tag |-> "missing", s |-> << >>]

\* dict.get(key): None for an absent key
Get(field) == IF field.tag = "missing" THEN Null ELSE field

\* dict.get(key, default)
GetDefault(field, default) == IF field.tag = "missing" THEN default ELSE field

\* bool(value) of a scalar: None and '' are falsy
Truthy(v) == v.tag = "num" \/ (v.tag = "str" /\ Len(v.s) > 0)

\* `value or ''`
OrEmpty(v) == IF Truthy(v) THEN v ELSE Str(<< >>)

\* The outcome of a call that returns a boolean or raises
RetBool(b) == [raised |-> FALSE, ret |-> b]
RaisedBool == [raised |-> TRUE, ret |-> FALSE]

\* The outcome of a call that returns text or raises
RetText(t) == [raised |-> FALSE, text |-> t]
RaisedText == [raised |-> TRUE, text |-> << >>]

\* A detail record of the 17track v2.2 API:
\*   {number, track_info: {latest_event: {description}, latest_status: {status}}}
\* every dict carries a tag: "dict", "null" (JSON null) or "missing" (key absent).
Package(number, track_info) ==
    [tag |-> "dict", number |-> number, track_info |-> track_info]
NullPackage ==
    [tag |-> "null", number |-> Missing,
     track_info |-> [tag |-> "missing",
                     latest_event |-> [tag |-> "missing", description |-> Missing],
                     latest_status |-> [tag |-> "missing", status |-> Missing]]]
TrackInfo(tag, latest_event, latest_status) ==
    [tag |-> tag, latest_event |-> latest_event, latest_status |-> latest_status]
LatestEvent(tag, description) == [tag |-> tag, description |-> description]
LatestStatus(tag, status) == [tag |-> tag, status |-> status]

\* bool(track_info): a dict is truthy when it has a key
TruthyTrackInfo(ti) ==
    /\ ti.tag = "dict"
    /\ (ti.latest_event.tag # "missing" \/ ti.latest_status.tag # "missing")

\* the 'description' entry of `track_info.get('latest_event', {}) or {}`
DescriptionField(ti) ==
    IF ti.latest_event.tag = "dict" THEN ti.latest_event.description ELSE Missing

\* the 'status' entry of `track_info.get('latest_status', {}) or {}`
StatusField(ti) ==
    IF ti.latest_status.tag = "dict" THEN ti.latest_status.status ELSE Missing

----------------------------------------------------------------------------
\* CustomsSummary.check_taxation (src/automations/daily-summary)

\* The `or ''` guards dropped: .lower() is called on None
check_taxation_try_unguarded(package) ==
    LET track_info == package.track_info IN
    IF ~TruthyTrackInfo(track_info) THEN RetBool(FALSE)
    ELSE
      LET status_v == Get(StatusField(track_info))
          event_v == Get(DescriptionField(track_info))
      IN
      IF status_v.tag # "str" \/ event_v.tag # "str" THEN RaisedBool
      ELSE IF InList(Lower(status_v.s), cs_problem_status) THEN RetBool(TRUE)
      ELSE IF AnyKeywordIn(cs_customs_keywords, Lower(event_v.s)) THEN RetBool(TRUE)
      ELSE RetBool(FALSE)

\* `status in ['alert', 'expired']` : 'undelivered' left out
cs_status_is_problem_short(status) ==
    InList(status, SubSeq(cs_problem_status, 1, 2))

\* `if status in ['alert', 'expired', 'undelivered']`
cs_status_is_problem(status) == InList(status, cs_problem_status)

\* the keyword test on the description as given, not lowered first
cs_event_has_keyword_cased(event_v) ==
    AnyKeywordIn(cs_customs_keywords, event_v.s)

\* `any(keyword in event_description for keyword in self.customs_keywords)`,
\* event_description being the lowered description
cs_event_has_keyword(event_v) ==
    AnyKeywordIn(cs_customs_keywords, Lower(event_v.s))

\* The body of the try block for a dict package: TRUE/FALSE, or an
\* AttributeError from .lower() on a non-string
check_taxation_try(package) ==
    LET track_info == package.track_info IN
    IF ~TruthyTrackInfo(track_info) THEN RetBool(FALSE)
    ELSE
      LET status_v == OrEmpty(Get(StatusField(track_info)))
          event_v == OrEmpty(Get(DescriptionField(track_info)))
      IN
      IF status_v.tag # "str" \/ event_v.tag # "str" THEN RaisedBool
      ELSE IF cs_status_is_problem(Lower(status_v.s)) THEN RetBool(TRUE)
      ELSE IF cs_event_has_keyword(event_v) THEN RetBool(TRUE)
      ELSE RetBool(FALSE)

\* try: ... except Exception: log package.get("number"), return False.
\* For a null package the handler's own package.get raises again.
check_taxation(package) ==
    IF package.tag = "null" THEN RaisedBool
    ELSE IF check_taxation_try(package).raised THEN RetBool(FALSE)
    ELSE check_taxation_try(package)

----------------------------------------------------------------------------
\* TrackingService._check_taxation (python/tracking_service.py)

\* A list item of the 17track API as TrackingService reads it
Item(number, package_status, latest_event_info) ==
    [tag |-> "dict", number |-> number, package_status |-> package_status,
     latest_event_info |-> latest_event_info]
NullItem ==
    [tag |-> "null", number |-> Missing, package_status |-> Missing,
     latest_event_info |-> Missing]

\* bool(tracking_info)
TruthyItem(item) ==
    /\ item.tag = "dict"
    /\ (\/ item.number.tag # "missing"
        \/ item.package_status.tag # "missing"
        \/ item.latest_event_info.tag # "missing")

\* any(keyword.lower() in latest_event for keyword in keywords)
AnyLoweredKeywordIn(keywords, text) ==
    \E i \in 1..Len(keywords) : Contains(text, Lower(keywords[i]))

ts_check_taxation(tracking_info) ==
    IF ~TruthyItem(tracking_info) THEN RetBool(FALSE)
    ELSE
      LET status == GetDefault(tracking_info.package_status, Str(<< >>))
          event_v == OrEmpty(GetDefault(tracking_info.latest_event_info, Str(<< >>)))
      IN
      IF event_v.tag # "str" THEN RaisedBool
      ELSE
        LET latest_event == Lower(event_v.s) IN
        IF status.tag = "str" /\ InList(status.s, ts_customs_status) THEN RetBool(TRUE)
        ELSE IF AnyLoweredKeywordIn(ts_customs_keywords, latest_event) THEN RetBool(TRUE)
        ELSE RetBool(FALSE)

----------------------------------------------------------------------------
\* CustomsSummary.translate_event and format_summary_message

\* for eng, pt in translations.items(): translated = translated.replace(eng, pt)
RECURSIVE TranslateFrom(_, _)
TranslateFrom(text, k) ==
    IF k > Len(translations) THEN text
    ELSE TranslateFrom(Replace(text, translations[k][1], translations[k][2]), k + 1)

\* translate_event(event) for a string: every phrase of the table replaced, in order
translate_event(event) == TranslateFrom(event, 1)

AlertText == <<"a","l","e","r","t">>
OtherProblemStatus == << <<"e","x","p","i","r","e","d">>,
                         <<"u","n","d","e","l","i","v","e","r","e","d">> >>
NumText == <<"0">>
NewLine == <<"\n">>

\* what an f-string prints for pkg.get('number', 'N/A')
NumberText(number) ==
    IF number.tag = "missing" THEN NAText
    ELSE IF number.tag = "null" THEN NoneText
    ELSE IF number.tag = "num" THEN NumText
    ELSE number.s

\* f'*{tracking_number}*'
TaxaLine(number) == <<"*">> \o NumberText(number) \o <<"*">>

\* f'*{tracking_number}*: {event}'
EventLine(number, event) ==
    <<"*">> \o NumberText(number) \o <<"*", ":", " ">> \o event

\* the accumulators of the loop; mensagem_taxa is None or a string
EmptyGroups ==
    [raised |-> FALSE, taxas_pendentes |-> << >>, em_alerta |-> << >>,
     com_problemas |-> << >>, mensagem_taxa |-> Null]

\* the customs keywords tested before the returning phrase
FormatStep_keywords_first(acc, pkg) ==
    IF acc.raised THEN acc
    ELSE IF pkg.tag = "null" \/ ~TruthyTrackInfo(pkg.track_info) THEN acc
    ELSE
      LET track_info == pkg.track_info
          status_v == OrEmpty(Get(StatusField(track_info)))
          event_v == GetDefault(DescriptionField(track_info), Str(<< >>))
      IN
      \* .lower() on a non-string status, .replace() on a non-string event
      IF status_v.tag # "str" \/ event_v.tag # "str"
      THEN [acc EXCEPT !.raised = TRUE]
      ELSE
        LET status == Lower(status_v.s)
            event == translate_event(event_v.s)
        IN
        IF AnyKeywordIn(cs_customs_keywords, Lower(event))
        THEN [acc EXCEPT !.taxas_pendentes = Append(@, TaxaLine(pkg.number)),
                         !.mensagem_taxa = IF Truthy(@) THEN @ ELSE Str(event)]
        ELSE IF Contains(Lower(event), ReturningText)
        THEN [acc EXCEPT !.com_problemas = Append(@, EventLine(pkg.number, event))]
        ELSE IF status = AlertText
        THEN [acc EXCEPT !.em_alerta = Append(@, EventLine(pkg.number, event))]
        ELSE IF InList(status, OtherProblemStatus)
        THEN [acc EXCEPT !.com_problemas = Append(@, EventLine(pkg.number, event))]
        ELSE acc

\* the status text replaced by every customs-pending record
FormatStep_last_status(acc, pkg) ==
    IF acc.raised THEN acc
    ELSE IF pkg.tag = "null" \/ ~TruthyTrackInfo(pkg.track_info) THEN acc
    ELSE
      LET track_info == pkg.track_info
          status_v == OrEmpty(Get(StatusField(track_info)))
          event_v == GetDefault(DescriptionField(track_info), Str(<< >>))
      IN
      IF status_v.tag # "str" \/ event_v.tag # "str"
      THEN [acc EXCEPT !.raised = TRUE]
      ELSE
        LET status == Lower(status_v.s)
            event == translate_event(event_v.s)
        IN
        IF Contains(Lower(event), ReturningText)
        THEN [acc EXCEPT !.com_problemas = Append(@, EventLine(pkg.number, event))]
        ELSE IF AnyKeywordIn(cs_customs_keywords, Lower(event))
        THEN [acc EXCEPT !.taxas_pendentes = Append(@, TaxaLine(pkg.number)),
                         !.mensagem_taxa = Str(event)]
        ELSE IF status = AlertText
        THEN [acc EXCEPT !.em_alerta = Append(@, EventLine(pkg.number, event))]
        ELSE IF InList(status, OtherProblemStatus)
        THEN [acc EXCEPT !.com_problemas = Append(@, EventLine(pkg.number, event))]
        ELSE acc

\* one iteration of `for pkg in packages` (customs_summary.py:246-279)
FormatStep(acc, pkg) ==
    IF acc.raised THEN acc
    ELSE IF pkg.tag = "null" \/ ~TruthyTrackInfo(pkg.track_info) THEN acc
    ELSE
      LET track_info == pkg.track_info
          status_v == OrEmpty(Get(StatusField(track_info)))
          event_v == GetDefault(DescriptionField(track_info), Str(<< >>))
      IN
      \* .lower() on a non-string status, .replace() on a non-string event
      IF status_v.tag # "str" \/ event_v.tag # "str"
      THEN [acc EXCEPT !.raised = TRUE]
      ELSE
        LET status == Lower(status_v.s)
            event == translate_event(event_v.s)
        IN
        IF Contains(Lower(event), ReturningText)
        THEN [acc EXCEPT !.com_problemas = Append(@, EventLine(pkg.number, event))]
        ELSE IF AnyKeywordIn(cs_customs_keywords, Lower(event))
        THEN [acc EXCEPT !.taxas_pendentes = Append(@, TaxaLine(pkg.number)),
                         !.mensagem_taxa = IF Truthy(@) THEN @ ELSE Str(event)]
        ELSE IF status = AlertText
        THEN [acc EXCEPT !.em_alerta = Append(@, EventLine(pkg.number, event))]
        ELSE IF InList(status, OtherProblemStatus)
        THEN [acc EXCEPT !.com_problemas = Append(@, EventLine(pkg.number, event))]
        ELSE acc

RECURSIVE FormatLoop(_, _, _)
FormatLoop(packages, i, acc) ==
    IF i > Len(packages) THEN acc
    ELSE FormatLoop(packages, i + 1, FormatStep(acc, packages[i]))

\* the problem block put before the alert block
FormatBlocks_problems_first(acc) ==
    HeaderText
    \o (IF Len(acc.taxas_pendentes) > 0
        THEN TaxasHeaderText \o Join(acc.taxas_pendentes, NewLine)
             \o (IF Truthy(acc.mensagem_taxa)
                 THEN StatusPrefixText \o acc.mensagem_taxa.s \o <<"_">>
                 ELSE << >>)
        ELSE << >>)
    \o (IF Len(acc.com_problemas) > 0
        THEN ProblemasHeaderText \o Join(acc.com_problemas, NewLine)
        ELSE << >>)
    \o (IF Len(acc.em_alerta) > 0
        THEN AlertaHeaderText \o Join(acc.em_alerta, NewLine)
        ELSE << >>)

\* the message put together from the three groups (customs_summary.py:281-297)
FormatBlocks(acc) ==
    HeaderText
    \o (IF Len(acc.taxas_pendentes) > 0
        THEN TaxasHeaderText \o Join(acc.taxas_pendentes, NewLine)
             \o (IF Truthy(acc.mensagem_taxa)
                 THEN StatusPrefixText \o acc.mensagem_taxa.s \o <<"_">>
                 ELSE << >>)
        ELSE << >>)
    \o (IF Len(acc.em_alerta) > 0
        THEN AlertaHeaderText \o Join(acc.em_alerta, NewLine)
        ELSE << >>)
    \o (IF Len(acc.com_problemas) > 0
        THEN ProblemasHeaderText \o Join(acc.com_problemas, NewLine)
        ELSE << >>)

format_summary_message(packages) ==
    IF Len(packages) = 0 THEN RetText(NoPendingText)
    ELSE LET acc == FormatLoop(packages, 1, EmptyGroups) IN
         IF acc.raised THEN RaisedText ELSE RetText(FormatBlocks(acc))

----------------------------------------------------------------------------
\* python/customs_summary.py: the message of generate_daily_summary

DigitChars == <<"0","1","2","3","4","5","6","7","8","9">>

\* str(n) for a natural number
RECURSIVE IntText(_)
IntText(n) ==
    IF n < 10 THEN <<DigitChars[n + 1]>>
    ELSE IntText(n \div 10) \o <<DigitChars[(n % 10) + 1]>>

\* package_info built for a pending item (tracking_service.py:175-183)
PackageInfo(item) ==
    [tracking_number |-> item.number,
     status |-> GetDefault(item.package_status, Str(<<"U","n","k","n","o","w","n">>)),
     latest_event |-> GetDefault(item.latest_event_info, Str(<< >>))]

\* [pkg['tracking_number'] for pkg in pending_packages]
TrackingCodes(pending_packages) ==
    [i \in 1..Len(pending_packages) |-> pending_packages[i].tracking_number]

\* python/customs_summary.py:19-32; "\n".join raises on a non-string code
py_summary_message(pending_packages) ==
    IF Len(pending_packages) = 0 THEN RetText(PyNoPendingText)
    ELSE
      LET tracking_codes == TrackingCodes(pending_packages) IN
      IF \E i \in 1..Len(tracking_codes) : tracking_codes[i].tag # "str"
      THEN RaisedText
      ELSE RetText(PyHeaderText \o IntText(Len(tracking_codes)) \o PyCodesText
                   \o Join([i \in 1..Len(tracking_codes) |-> tracking_codes[i].s],
                           NewLine))

----------------------------------------------------------------------------
\* State

VARIABLES
    \* CustomsSummary.make_request: one call
    mr_pc,          \* "idle", "try", "sleep", "returned", "raised"
    mr_attempt,     \* the loop variable `attempt` (from 0)
    mr_trace,       \* what the call did so far: HTTP requests and sleeps
    mr_outcome,     \* what the call handed to its caller
    \* a list fetch (get_all_packages, or one of the two TrackingService loops)
    f_impl,         \* which implementation runs
    f_provider,     \* the page object the provider reports, and a record lacking 'number'
    f_pc,           \* "loop", "await", "returned", "raised"
    f_page,         \* current_page / page
    f_total_pages,  \* total_pages (TrackingService)
    f_collected,    \* all_packages / tracking_numbers / pending_packages
    f_served,       \* how many records the provider has served
    f_requests,     \* page_no of every HTTP list request issued
    f_responses,    \* the response handed to the loop for each page
    \* the classify / format stage of a daily summary
    s_impl,         \* "automations" (src/automations) or "python"
    s_pc,           \* "classify", "format", "formatted", "skipped", "raised_..."
    s_detailed,     \* the records the fetch stage returned
    s_i,            \* the next record to classify
    s_verdicts,     \* the classifier's outcome for each record classified
    s_pending,      \* pending_packages
    s_message,      \* the message built
    \* the process environment and config.json
    env,            \* os.getenv of each setting: None, '' or a text
    \* one send to the WhatsApp gateway
    w_impl,         \* "send_whatsapp_message" or "send_message"
    w_pc,           \* "idle", "start", "await", "done"
    w_args,         \* the arguments of the call: the message, and the number if passed
    w_clean_number, \* clean_number (send_whatsapp_message)
    w_posts,        \* every HTTP POST issued to the gateway, with its answer
    w_result,       \* what the send handed to its caller
    \* one daily-summary run, from its entry point
    r_entry,        \* the entry point that started the run
    r_impl,         \* the generate_daily_summary the entry point runs
    r_pc,           \* the stage the run is in
    r_events,       \* what the run did so far: fetches and sends
    r_result,       \* how generate_daily_summary and the process ended
    \* CustomsSummary.get_detailed_packages: one call
    d_pc,           \* "idle", "start", "loop", "await", "returned", "raised"
    d_input,        \* packages, and a record of it lacking 'number' or 'carrier'
    d_i,            \* the loop variable `i` of range(0, len(packages), batch_size)
    d_batches,      \* track_data of every make_request call
    d_http,         \* every HTTP detail request issued: its batch and its entries
    d_detailed,     \* detailed_packages
    d_error,        \* the exception the call raised, "" if none
    \* a Redis repair script (src/scripts) working on a store
    rd_script,      \* "fix_redis" or "fix_ortopedic_encoding"
    rd_pc,          \* the step of the script
    rd_store,       \* the store: what each key holds
    rd_todo,        \* the keys the current loop has still to visit
    rd_runs,        \* runs of the script completed on this store
    rd_before,      \* the store when the current run started
    rd_first,       \* the store when the first run ended
    rd_failed       \* the keys whose re-encoding failed in the current run

mrVars == <<mr_pc, mr_attempt, mr_trace, mr_outcome>>
fVars == <<f_impl, f_provider, f_pc, f_page, f_total_pages, f_collected, f_served,
           f_requests, f_responses>>
sVars == <<s_impl, s_pc, s_detailed, s_i, s_verdicts, s_pending, s_message>>
wVars == <<w_impl, w_pc, w_args, w_clean_number, w_posts, w_result>>
rVars == <<r_entry, r_impl, r_pc, r_events, r_result>>
dVars == <<d_pc, d_input, d_i, d_batches, d_http, d_detailed, d_error>>
rdVars == <<rd_script, rd_pc, rd_store, rd_todo, rd_runs, rd_before, rd_first, rd_failed>>
vars == <<mrVars, fVars, sVars, env, wVars, rVars, dVars, rdVars>>

----------------------------------------------------------------------------
\* HTTP responses

\* A JSON body. shape: "dict", "list" (valid JSON, not an object) or "invalid"
\* (response.json() raises). error: the 'error' entry, "missing", "null", "false",
\* "true". code: "missing", "zero", "nonzero". data: "missing", "null",
\* "no_accepted" (a dict without 'accepted') or "accepted" (with n records).
Body(shape, error, code, data, n, page) ==
    [shape |-> shape, error |-> error, code |-> code, data |-> data, n |-> n,
     page |-> page]

\* the 'page' object of a list response: absent, or {data_total, page_size}
NoPage == [present |-> FALSE, data_total |-> 0, page_size |-> 0]
Page(total, size) == [present |-> TRUE, data_total |-> total, page_size |-> size]

EmptyBody == Body("dict", "missing", "missing", "missing", 0, NoPage)

\* What one HTTP call produces: a transport exception, or a response with a
\* content type, an HTTP status and a body
TransportError ==
    [transport_ok |-> FALSE, ctype_json |-> FALSE, http_ok |-> FALSE, body |-> EmptyBody]
JsonResponse(body) ==
    [transport_ok |-> TRUE, ctype_json |-> TRUE, http_ok |-> TRUE, body |-> body]
TextResponse(http_ok) ==
    [transport_ok |-> TRUE, ctype_json |-> FALSE, http_ok |-> http_ok, body |-> EmptyBody]

\* the responses of an arbitrary endpoint
AnyResponses ==
    {TransportError, TextResponse(TRUE), TextResponse(FALSE),
     JsonResponse(Body("invalid", "missing", "missing", "missing", 0, NoPage)),
     JsonResponse(Body("list", "missing", "missing", "missing", 0, NoPage))}
    \cup {JsonResponse(Body("dict", e, "zero", "missing", 0, NoPage)) :
            e \in {"missing", "null", "false", "true"}}

----------------------------------------------------------------------------
\* CustomsSummary.make_request (customs_summary.py:53-79)

max_retries == 3
retry_delay == 1

\* The try block on one response: "" when it returns, else the exception raised
AttemptError(resp) ==
    IF ~resp.transport_ok THEN "ConnectionError"
    ELSE IF resp.ctype_json
    THEN IF resp.body.shape = "invalid" THEN "JSONDecodeError"
         ELSE IF resp.body.shape = "list" THEN "AttributeError"
         ELSE IF resp.body.error = "true" THEN "ValueError"
         ELSE ""
    ELSE IF ~resp.http_ok THEN "HTTPError"
    ELSE ""

\* `attempt < self.max_retries` : one retry too many
ShouldRetryOffByOne(attempt) == attempt < max_retries

\* `if attempt < self.max_retries - 1`
ShouldRetry(attempt) == attempt < max_retries - 1

NoOutcome == [status |-> "none", attempt |-> 0, error |-> "", resp |-> TransportError]

RequestEvent(attempt, resp) ==
    [kind |-> "request", attempt |-> attempt, seconds |-> 0,
     error |-> AttemptError(resp), resp |-> resp]
SleepEvent(seconds) ==
    [kind |-> "sleep", attempt |-> 0, seconds |-> seconds, error |-> "",
     resp |-> TransportError]

\* the state of a call that has just been entered
MrEnter ==
    /\ mr_pc' = "try"
    /\ mr_attempt' = 0
    /\ mr_trace' = << >>
    /\ mr_outcome' = NoOutcome

\* one pass of the try block: the request is issued and answered with resp
MrTry(resp) ==
    /\ mr_pc = "try"
    /\ mr_trace' = Append(mr_trace, RequestEvent(mr_attempt + 1, resp))
    /\ IF AttemptError(resp) = ""
       THEN /\ mr_pc' = "returned"
            /\ mr_outcome' = [status |-> "returned", attempt |-> mr_attempt + 1,
                              error |-> "", resp |-> resp]
       ELSE IF ShouldRetry(mr_attempt)
       THEN /\ mr_pc' = "sleep"
            /\ mr_outcome' = mr_outcome
       ELSE /\ mr_pc' = "raised"
            /\ mr_outcome' = [status |-> "raised", attempt |-> mr_attempt + 1,
                              error |-> AttemptError(resp), resp |-> resp]
    /\ mr_attempt' = mr_attempt

\* time.sleep(self.retry_delay), then the next pass of `for attempt in range(...)`;
\* a loop that runs out falls off the end of the function and returns None
MrSleep ==
    /\ mr_pc = "sleep"
    /\ mr_trace' = Append(mr_trace, SleepEvent(retry_delay))
    /\ mr_attempt' = mr_attempt + 1
    /\ IF mr_attempt + 1 < max_retries
       THEN /\ mr_pc' = "try"
            /\ mr_outcome' = mr_outcome
       ELSE /\ mr_pc' = "returned"
            /\ mr_outcome' = [NoOutcome EXCEPT !.status = "returned_none"]

MrIdle ==
    /\ mr_pc = "idle"
    /\ mr_attempt = 0
    /\ mr_trace = << >>
    /\ mr_outcome = NoOutcome

----------------------------------------------------------------------------
\* The tracking provider's list endpoint

\* bound: the pages a fetch may request before the model stops following it
MaxPages == 3

\* the page size the fetchers work with (customs_summary.py:142,
\* tracking_service.py:49)
page_size_40 == 40

\* n // d rounded up, by search: the least k with k * d >= n
CeilDiv(n, d) == CHOOSE k \in 0..n : k * d >= n /\ \A j \in 0..(k - 1) : j * d < n

\* the page objects a provider may report: none, or a total and a page size
PageInfos ==
    {NoPage}
    \cup {Page(85, 0)}
    \cup {p \in {Page(t, sz) : t \in {0, 1, 2, 3, 4, 40, 41, 80, 85, 120, 121, 160},
                               sz \in {1, 40}} :
            CeilDiv(p.data_total, p.page_size) <= MaxPages}

\* the number of records a list page may carry
PageLens == {0, 1, page_size_40}

\* the responses to one list request, given the page object the provider reports
ListResponses(page) ==
    {TransportError, TextResponse(TRUE),
     JsonResponse(Body("invalid", "missing", "missing", "missing", 0, NoPage)),
     JsonResponse(Body("dict", "true", "nonzero", "missing", 0, NoPage)),
     JsonResponse(Body("dict", "missing", "nonzero", "accepted", 1, page)),
     JsonResponse(Body("dict", "missing", "missing", "accepted", 1, page)),
     JsonResponse(Body("dict", "missing", "zero", "missing", 0, page)),
     JsonResponse(Body("dict", "missing", "zero", "null", 0, page)),
     JsonResponse(Body("dict", "missing", "zero", "no_accepted", 0, page))}
    \cup {JsonResponse(Body("dict", "missing", "zero", "accepted", n, page)) :
            n \in PageLens}

\* the record with a given serial number in the provider's list: its number is
\* its serial, printed; the record with serial bad_id has no 'number'
ProviderItem(id, bad_id) ==
    LET number == IF id = bad_id THEN Missing ELSE Str(IntText(id)) IN
    IF id % 3 = 1
    THEN Item(number, Str(<<"C","u","s","t","o","m","s","H","o","l","d">>),
              Str(<<"A","r","r","i","v","e","d">>))
    ELSE IF id % 3 = 2
    THEN Item(number, Str(<<"D","e","l","i","v","e","r","e","d">>),
              Str(<<"D","e","l","i","v","e","r","e","d">>))
    ELSE Item(number, Str(<<"I","n","T","r","a","n","s","i","t">>),
              Str(<<"H","e","l","d"," ","b","y"," ","C","u","s","t","o","m","s">>))

\* the records of a response: the next n serials
Accepted(body, served) ==
    IF body.data = "accepted" THEN [i \in 1..body.n |-> served + i] ELSE << >>

----------------------------------------------------------------------------
\* CustomsSummary.get_all_packages (customs_summary.py:117-148)

\* `len(packages) <= 40` : a full page ends the loop
gap_last_page_off_by_one(count) == count <= page_size_40

\* `if len(packages) < 40: break`
gap_last_page(count) == count < page_size_40

\* current_page += 2 : a page is skipped
gap_next_page_skips(page) == page + 2

\* current_page += 1 (line 146)
gap_next_page(page) == page + 1

\* the loop body up to make_request: the call is entered for page current_page
GapRequest ==
    /\ f_impl = "get_all_packages"
    /\ f_pc = "loop"
    /\ f_page <= MaxPages
    /\ MrEnter
    /\ f_pc' = "await"
    /\ UNCHANGED <<f_impl, f_provider, f_page, f_total_pages, f_collected, f_served,
                   f_requests, f_responses>>

\* make_request issues the list request for current_page
GapAttempt ==
    /\ f_impl = "get_all_packages"
    /\ f_pc = "await"
    /\ \E resp \in ListResponses(f_provider.page) : MrTry(resp)
    /\ f_requests' = Append(f_requests, f_page)
    /\ UNCHANGED <<f_impl, f_provider, f_pc, f_page, f_total_pages, f_collected,
                   f_served, f_responses>>

\* make_request waits before its next attempt
GapBackoff ==
    /\ f_impl = "get_all_packages"
    /\ f_pc = "await"
    /\ MrSleep
    /\ UNCHANGED fVars

\* the exception get_all_packages raises on what make_request returned, "" if none
GapError(outcome) ==
    IF outcome.status = "raised" THEN outcome.error
    ELSE IF outcome.status = "returned_none" \/ ~outcome.resp.ctype_json
    THEN "AttributeError"
    ELSE IF outcome.resp.body.code # "zero" THEN "ValueError"
    ELSE IF outcome.resp.body.data = "null" THEN "AttributeError"
    ELSE ""

\* the rest of the loop body, once make_request has returned or raised
GapProcess ==
    /\ f_impl = "get_all_packages"
    /\ f_pc = "await"
    /\ mr_pc \in {"returned", "raised"}
    /\ f_responses' = Append(f_responses, mr_outcome)
    /\ IF GapError(mr_outcome) # ""
       THEN /\ f_pc' = "raised"
            /\ UNCHANGED <<f_page, f_collected, f_served>>
       ELSE LET packages == Accepted(mr_outcome.resp.body, f_served) IN
            /\ f_collected' = f_collected \o packages
            /\ f_served' = f_served + Len(packages)
            /\ IF gap_last_page(Len(packages))
               THEN f_pc' = "returned" /\ f_page' = f_page
               ELSE f_pc' = "loop" /\ f_page' = gap_next_page(f_page)
    /\ mr_pc' = "idle"
    /\ mr_attempt' = 0
    /\ mr_trace' = << >>
    /\ mr_outcome' = NoOutcome
    /\ UNCHANGED <<f_impl, f_provider, f_total_pages, f_requests>>

----------------------------------------------------------------------------
\* TrackingService.list_all_tracking_numbers and
\* TrackingService.get_packages_with_pending_customs (python/tracking_service.py)

TsImpls == {"list_all_tracking_numbers", "get_packages_with_pending_customs"}

\* `total_items // page_size` : rounded down
ts_total_pages_floor(total_items, page_size) == total_items \div page_size

\* total_pages = (total_items + page_size - 1) // page_size
ts_total_pages(total_items, page_size) == (total_items + page_size - 1) \div page_size

\* the serials of a page that the loop over response_data['data']['accepted'] keeps
TsKept(impl, ids, bad_id) ==
    IF impl = "list_all_tracking_numbers" THEN ids
    ELSE SelectSeq(ids, LAMBDA id : ts_check_taxation(ProviderItem(id, bad_id)).ret)

\* the exception one pass of the while loop raises on a response, "" if none
TsError(impl, resp, page, bad_id, served) ==
    IF ~resp.transport_ok THEN "ConnectionError"
    ELSE IF ~resp.ctype_json \/ resp.body.shape = "invalid" THEN "JSONDecodeError"
    ELSE IF resp.body.shape = "list" THEN "Exception"
    ELSE IF resp.body.code # "zero" \/ resp.body.data \in {"missing", "no_accepted"}
    THEN "Exception"
    ELSE IF resp.body.data = "null" THEN "TypeError"
    ELSE IF page = 1 /\ resp.body.page.present /\ resp.body.page.page_size = 0
    THEN "ZeroDivisionError"
    ELSE LET ids == Accepted(resp.body, served) IN
         IF \E i \in 1..Len(ids) :
               /\ ids[i] = bad_id
               /\ (\/ impl = "list_all_tracking_numbers"
                   \/ ts_check_taxation(ProviderItem(ids[i], bad_id)).ret)
         THEN "KeyError"
         ELSE ""

\* one pass of `while page <= total_pages`, the request answered with resp
TsIterate ==
    /\ f_impl \in TsImpls
    /\ f_pc = "loop"
    /\ f_page <= f_total_pages
    /\ \E resp \in ListResponses(f_provider.page) :
         LET error == TsError(f_impl, resp, f_page, f_provider.bad_id, f_served)
             ids == Accepted(resp.body, f_served)
             total == IF f_page = 1 /\ resp.body.page.present
                      THEN ts_total_pages(resp.body.page.data_total,
                                          resp.body.page.page_size)
                      ELSE f_total_pages
         IN
         /\ f_requests' = Append(f_requests, f_page)
         /\ f_responses' = Append(f_responses,
                [status |-> IF resp.transport_ok THEN "returned" ELSE "raised",
                 attempt |-> 1, error |-> IF resp.transport_ok THEN "" ELSE "ConnectionError", resp |-> resp])
         /\ IF error # ""
            THEN /\ f_pc' = "raised"
                 /\ UNCHANGED <<f_page, f_total_pages, f_collected, f_served>>
            ELSE /\ f_total_pages' = total
                 /\ f_collected' = f_collected \o TsKept(f_impl, ids, f_provider.bad_id)
                 /\ f_served' = f_served + Len(ids)
                 /\ f_page' = f_page + 1
                 /\ f_pc' = IF f_page + 1 <= total THEN "loop" ELSE "returned"
    /\ UNCHANGED <<f_impl, f_provider>>
    /\ UNCHANGED mrVars

FetchIdle ==
    /\ f_impl = "none"
    /\ f_provider = [page |-> NoPage, bad_id |-> 0]
    /\ f_pc = "idle"
    /\ f_page = 1
    /\ f_total_pages = 1
    /\ f_collected = << >>
    /\ f_served = 0
    /\ f_requests = << >>
    /\ f_responses = << >>

----------------------------------------------------------------------------
\* The records the classifiers and the formatters are tried on

\* bound: the longest list of records a summary is built from
MaxPkgs == 2

\* the status values tried: absent, null, a number, and these strings
StatusPool ==
    {Missing, Null, Num,
     Str(<< >>),
     Str(<<"a","l","e","r","t">>),
     Str(<<"A","l","e","r","t">>),
     Str(<<"E","X","P","I","R","E","D">>),
     Str(<<"u","n","d","e","l","i","v","e","r","e","d">>),
     Str(<<"C","u","s","t","o","m","s","H","o","l","d">>),
     Str(<<"c","u","s","t","o","m","s","h","o","l","d">>),
     Str(<<"I","n","T","r","a","n","s","i","t","_","C","u","s","t","o","m","s","P","r","o","c",
              "e","s","s","i","n","g">>),
     Str(<<"E","x","c","e","p","t","i","o","n","_","S","e","c","u","r","i","t","y">>),
     Str(<<"D","e","l","i","v","e","r","y","F","a","i","l","u","r","e","_","S","e","c","u","r",
              "i","t","y">>),
     Str(<<"D","e","l","i","v","e","r","e","d">>),
     Str(<<"I","n","T","r","a","n","s","i","t">>)}

\* the event descriptions tried: absent, null, a number, and these strings
DescPool ==
    {Missing, Null, Num,
     Str(<< >>),
     Str(<<"D","e","l","i","v","e","r","e","d">>),
     Str(<<"H","e","l","d"," ","b","y"," ","C","u","s","t","o","m","s">>),
     Str(<<"T","a","x"," ","d","u","e">>),
     Str(<<"C","l","e","a","r","a","n","c","e"," ","d","e","l","a","y">>),
     Str(<<"R","e","t","i","d","o"," ","n","a"," ","A","l","f","â","n","d","e","g","a">>),
     Str(<<"T","A","X","A"," ","p","e","n","d","e","n","t","e">>),
     Str(<<"I","m","p","o","s","t","o"," ","d","e","v","i","d","o">>),
     Str(<<"E","m"," ","t","r","i","b","u","t","a","ç","ã","o">>),
     Str(<<"D","e","s","e","m","b","a","r","a","ç","o">>),
     Str(<<"D","e","c","l","a","r","a","ç","ã","o">>),
     Str(<<"F","i","s","c","a","l","i","z","a","ç","ã","o">>),
     Str(<<"A","u","t","o","r","i","d","a","d","e"," ","C","o","m","p","e","t","e","n","t","e">>),
     Str(<<"I","m","p","o","r","t"," ","c","u","s","t","o","m","s"," ","c","l","e","a","r","a",
              "n","c","e"," ","d","e","l","a","y">>),
     Str(<<"P","a","c","k","a","g","e"," ","r","e","t","u","r","n","i","n","g"," ","t","o"," ",
              "s","e","n","d","e","r">>),
     Str(<<"C","u","s","t","o","m","s"," ","c","h","a","r","g","e","s"," ","d","u","e">>),
     Str(<<"C","a","r","r","i","e","r"," ","n","o","t","e">>)}

\* the number of a record is set from its place in the list
Positional == Str(<<"?">>)

\* the detail records the summary is tried on
PackageShapes ==
    {\* nothing pending
     Package(Positional,
         TrackInfo("dict", LatestEvent("dict", Str(<<"D","e","l","i","v","e","r","e","d">>)), LatestStatus("dict", Str(<<"D","e","l","i","v","e","r","e","d">>)))),
     \* alert, with a note
     Package(Positional,
         TrackInfo("dict", LatestEvent("dict", Str(<<"C","a","r","r","i","e","r"," ","n","o","t","e">>)), LatestStatus("dict", Str(<<"a","l","e","r","t">>)))),
     \* expired, no event text
     Package(Positional,
         TrackInfo("dict", LatestEvent("dict", Str(<< >>)), LatestStatus("dict", Str(<<"E","x","p","i","r","e","d">>)))),
     \* a customs keyword in the event
     Package(Positional,
         TrackInfo("dict", LatestEvent("dict", Str(<<"H","e","l","d"," ","b","y"," ","C","u","s","t","o","m","s">>)), LatestStatus("dict", Str(<<"I","n","T","r","a","n","s","i","t">>)))),
     \* a customs phrase of the translation table
     Package(Positional,
         TrackInfo("dict", LatestEvent("dict", Str(<<"I","m","p","o","r","t"," ","c","u","s","t","o","m","s"," ","c","l","e","a","r","a",
              "n","c","e"," ","d","e","l","a","y">>)), LatestStatus("dict", Str(<<"I","n","T","r","a","n","s","i","t">>)))),
     \* undelivered, returning to sender
     Package(Positional,
         TrackInfo("dict", LatestEvent("dict", Str(<<"P","a","c","k","a","g","e"," ","r","e","t","u","r","n","i","n","g"," ","t","o"," ",
              "s","e","n","d","e","r">>)), LatestStatus("dict", Str(<<"u","n","d","e","l","i","v","e","r","e","d">>)))),
     \* alert, returning to sender after a customs refusal
     Package(Positional,
         TrackInfo("dict", LatestEvent("dict", Str(<<"C","u","s","t","o","m","s"," ","r","e","f","u","s","a","l",":"," ","P","a",
                "c","k","a","g","e"," ","r","e","t","u","r","n","i","n","g"," ",
                "t","o"," ","s","e","n","d","e","r">>)),
                   LatestStatus("dict", Str(<<"a","l","e","r","t">>)))),
     \* alert, a customs keyword in the event
     Package(Positional,
         TrackInfo("dict", LatestEvent("dict", Str(<<"H","e","l","d"," ","b","y"," ","C","u","s","t","o","m","s">>)),
                   LatestStatus("dict", Str(<<"a","l","e","r","t">>)))),
     \* expired, a customs keyword in the event
     Package(Positional,
         TrackInfo("dict", LatestEvent("dict", Str(<<"T","A","X","A"," ","p","e","n","d","e","n","t","e">>)),
                   LatestStatus("dict", Str(<<"E","x","p","i","r","e","d">>)))),
     \* alert, description null
     Package(Positional,
         TrackInfo("dict", LatestEvent("dict", Null), LatestStatus("dict", Str(<<"a","l","e","r","t">>)))),
     \* alert, description absent
     Package(Positional,
         TrackInfo("dict", LatestEvent("dict", Missing), LatestStatus("dict", Str(<<"a","l","e","r","t">>)))),
     \* latest_status null, a keyword in the event
     Package(Positional,
         TrackInfo("dict", LatestEvent("dict", Str(<<"T","A","X","A"," ","p","e","n","d","e","n","t","e">>)), LatestStatus("null", Missing))),
     \* a provider customs code, benign event
     Package(Positional,
         TrackInfo("dict", LatestEvent("dict", Str(<<"D","e","l","i","v","e","r","e","d">>)), LatestStatus("dict", Str(<<"C","u","s","t","o","m","s","H","o","l","d">>)))),
     \* no track_info
     Package(Positional,
         TrackInfo("missing", LatestEvent("missing", Missing), LatestStatus("missing", Missing))),
     \* a null record
     NullPackage}

\* the list records the python summary is tried on
ItemShapes ==
    {\* a customs status
     Item(Positional, Str(<<"C","u","s","t","o","m","s","H","o","l","d">>), Str(<<"A","r","r","i","v","e","d">>)),
     \* nothing pending
     Item(Positional, Str(<<"D","e","l","i","v","e","r","e","d">>), Str(<<"D","e","l","i","v","e","r","e","d">>)),
     \* a keyword in the event
     Item(Positional, Str(<<"I","n","T","r","a","n","s","i","t">>), Str(<<"C","u","s","t","o","m","s"," ","c","l","e","a","r","a","n","c","e">>)),
     \* status and event null
     Item(Positional, Null, Null),
     \* pending, no number
     Item(Missing, Str(<<"C","u","s","t","o","m","s","H","o","l","d">>), Missing),
     \* pending, number null
     Item(Null, Str(<<"C","u","s","t","o","m","s","H","o","l","d">>), Missing),
     \* a null record
     NullItem}

\* every status with every description, and the records without track_info
AllPackages ==
    {Package(Positional, TrackInfo("dict", LatestEvent("dict", d), LatestStatus("dict", st))) :
        st \in StatusPool, d \in DescPool}
    \cup {p \in PackageShapes : p.tag = "null" \/ p.track_info.tag # "dict"
                                \/ p.track_info.latest_status.tag # "dict"}

AllItems ==
    {Item(Positional, st, d) : st \in StatusPool, d \in DescPool}
    \cup {i \in ItemShapes : i.tag = "null"}

\* the tracking number of the i-th record of a list: "P1", "P2", ...
NumberFor(i) == Str(<<"P">> \o IntText(i))

\* a list of shapes with the positional numbers filled in
Numbered(shapes) ==
    [i \in 1..Len(shapes) |->
        IF shapes[i].number = Positional
        THEN [shapes[i] EXCEPT !.number = NumberFor(i)]
        ELSE shapes[i]]

\* the lists of at most n records over a pool
ListsUpTo(pool, n) == UNION {[1..k -> pool] : k \in 0..n}

----------------------------------------------------------------------------
\* The classify and format stages of a daily summary

EmptyMessage == RetText(<< >>)

\* pending_packages = [pkg for pkg in detailed_packages if self.check_taxation(pkg)]
\* (customs_summary.py:105-108), one record at a time
CsClassify ==
    /\ s_impl = "automations"
    /\ s_pc = "classify"
    /\ s_i <= Len(s_detailed)
    /\ LET verdict == check_taxation(s_detailed[s_i]) IN
       /\ s_verdicts' = Append(s_verdicts, verdict)
       /\ IF verdict.raised
          THEN s_pc' = "classify_raised" /\ s_pending' = s_pending
          ELSE /\ s_pc' = s_pc
               /\ s_pending' = IF verdict.ret THEN Append(s_pending, s_detailed[s_i])
                               ELSE s_pending
    /\ s_i' = s_i + 1
    /\ UNCHANGED <<s_impl, s_detailed, s_message>>

\* generate_daily_summary once the pending list is there (customs_summary.py:361-366):
\* the message is built only for a non-empty list
CsFormat ==
    /\ s_impl = "automations"
    /\ s_pc = "classify"
    /\ s_i > Len(s_detailed)
    /\ IF Len(s_pending) > 0
       THEN /\ s_message' = format_summary_message(s_pending)
            /\ s_pc' = IF s_message'.raised THEN "format_raised" ELSE "formatted"
       ELSE /\ s_message' = s_message
            /\ s_pc' = "skipped"
    /\ UNCHANGED <<s_impl, s_detailed, s_i, s_verdicts, s_pending>>

\* format_summary_message called on a list as it is
CsFormatCall ==
    /\ s_impl = "automations"
    /\ s_pc = "format"
    /\ s_message' = format_summary_message(s_pending)
    /\ s_pc' = IF s_message'.raised THEN "format_raised" ELSE "formatted"
    /\ UNCHANGED <<s_impl, s_detailed, s_i, s_verdicts, s_pending>>

\* the loop over a page's records in TrackingService.get_packages_with_pending_customs
\* (tracking_service.py:172-192): item['number'] raises KeyError when absent
PyClassify ==
    /\ s_impl = "python"
    /\ s_pc = "classify"
    /\ s_i <= Len(s_detailed)
    /\ LET item == s_detailed[s_i]
           verdict == ts_check_taxation(item)
       IN
       /\ s_verdicts' = Append(s_verdicts, verdict)
       /\ IF verdict.raised \/ (verdict.ret /\ item.number.tag = "missing")
          THEN s_pc' = "classify_raised" /\ s_pending' = s_pending
          ELSE /\ s_pc' = s_pc
               /\ s_pending' = IF verdict.ret THEN Append(s_pending, PackageInfo(item))
                               ELSE s_pending
    /\ s_i' = s_i + 1
    /\ UNCHANGED <<s_impl, s_detailed, s_message>>

\* python/customs_summary.py:19-35: the message is built for every list
PyFormat ==
    /\ s_impl = "python"
    /\ s_pc = "classify"
    /\ s_i > Len(s_detailed)
    /\ s_message' = py_summary_message(s_pending)
    /\ s_pc' = IF s_message'.raised THEN "format_raised" ELSE "formatted"
    /\ UNCHANGED <<s_impl, s_detailed, s_i, s_verdicts, s_pending>>

SummaryIdle ==
    /\ s_impl = "none"
    /\ s_pc = "idle"
    /\ s_detailed = << >>
    /\ s_i = 1
    /\ s_verdicts = << >>
    /\ s_pending = << >>
    /\ s_message = EmptyMessage

----------------------------------------------------------------------------
\* The environment

\* os.getenv(name): None when unset, else the text (possibly empty)
Unset == Null
SetTo(text) == Str(text)

\* a setting that is present and not empty
SomeUrl == <<"u">>
SomeKey == <<"k">>
SomeNumber == <<"5","5","1","1","9">>

\* every setting present
EnvAllSet ==
    [TRACK17_API_URL |-> SetTo(SomeUrl), TRACK17_API_KEY |-> SetTo(SomeKey),
     TRACK17_STATUS_PATH |-> SetTo(SomeUrl),
     WAPI_URL |-> SetTo(SomeUrl), WAPI_TOKEN |-> SetTo(SomeKey),
     WAPI_CONNECTION_KEY |-> SetTo(SomeKey),
     TECHNICAL_DEPT_NUMBER |-> SetTo(SomeNumber),
     config_json |-> "ok"]

\* the settings send_whatsapp_message reads, in the order of whatsapp_config
\* (customs_summary.py:303-308)
GatewaySettings ==
    <<"WAPI_URL", "WAPI_TOKEN", "WAPI_CONNECTION_KEY", "TECHNICAL_DEPT_NUMBER">>

----------------------------------------------------------------------------
\* CustomsSummary.send_whatsapp_message (customs_summary.py:299-353)

\* str.isdigit on one character
IsDigit(c) == InList(c, DigitChars)

\* ''.join(filter(str.isdigit, number))
DigitsOf(number) == SelectSeq(number, IsDigit)

CountryCode == <<"5","5">>

\* the prefix is added whatever the digits start with
clean_number_always_prefixed(number) == CountryCode \o DigitsOf(number)

\* clean_number: the digits, with 55 in front unless they start with 55
\* (customs_summary.py:316-322)
clean_number(number) ==
    IF MatchAt(DigitsOf(number), CountryCode, 1)
    THEN DigitsOf(number)
    ELSE CountryCode \o DigitsOf(number)

\* what a send hands to its caller, and the seconds it slept after the
\* gateway's last answer before doing so
NoResult == [status |-> "none", ret |-> "None", error |-> "", slept |-> 0]
Returned(ret) == [status |-> "returned", ret |-> ret, error |-> "", slept |-> 0]
Raised(error) == [status |-> "raised", ret |-> "None", error |-> error, slept |-> 0]

\* one POST to the gateway: its JSON payload and the answer
Post(phoneNumber, message, resp) ==
    [phoneNumber |-> phoneNumber, message |-> message, resp |-> resp]

NoArgs == [message |-> << >>, phone_number |-> Missing]

\* the state of a send that has just been called
SendEnter(impl, message, phone_number) ==
    /\ w_impl' = impl
    /\ w_pc' = "start"
    /\ w_args' = [message |-> message, phone_number |-> phone_number]
    /\ w_clean_number' = << >>
    /\ w_posts' = << >>
    /\ w_result' = NoResult

\* lines 302-340: the settings are read and validated, the number is cleaned,
\* and make_request is entered
SwmStart ==
    /\ w_impl = "send_whatsapp_message"
    /\ w_pc = "start"
    /\ IF \E i \in 1..Len(GatewaySettings) : ~Truthy(env[GatewaySettings[i]])
       THEN /\ w_pc' = "done"
            /\ w_result' = Raised("ValueError: settings missing")
            /\ UNCHANGED <<w_clean_number, mrVars>>
       ELSE IF Len(DigitsOf(env.TECHNICAL_DEPT_NUMBER.s)) = 0
       THEN /\ w_pc' = "done"
            /\ w_result' = Raised("ValueError: invalid number")
            /\ UNCHANGED <<w_clean_number, mrVars>>
       ELSE /\ w_pc' = "await"
            /\ w_clean_number' = clean_number(env.TECHNICAL_DEPT_NUMBER.s)
            /\ w_result' = w_result
            /\ MrEnter
    /\ UNCHANGED <<w_impl, w_args, w_posts>>

\* make_request issues the POST
SwmAttempt ==
    /\ w_impl = "send_whatsapp_message"
    /\ w_pc = "await"
    /\ \E resp \in AnyResponses :
         /\ MrTry(resp)
         /\ w_posts' = Append(w_posts, Post(w_clean_number, w_args.message, resp))
    /\ UNCHANGED <<w_impl, w_pc, w_args, w_clean_number, w_result>>

\* make_request waits before its next attempt
SwmBackoff ==
    /\ w_impl = "send_whatsapp_message"
    /\ w_pc = "await"
    /\ MrSleep
    /\ UNCHANGED wVars

\* `if response and response.get('error'): raise` only an error that is truthy
\* ends the send
swm_rejects_unless_false(body) == body.error # "false"

\* `if response and response.get('error')` on a JSON object (line 346)
swm_rejects(body) == body.error = "true"

\* lines 343-353 once make_request has returned or raised; text_empty tells
\* whether a non-JSON answer had an empty body
SwmError(outcome, text_empty) ==
    IF outcome.status = "raised" THEN outcome.error
    ELSE IF outcome.status = "returned_none" THEN ""
    ELSE IF ~outcome.resp.ctype_json
    THEN IF text_empty THEN "" ELSE "AttributeError"
    ELSE IF swm_rejects(outcome.resp.body) THEN "ValueError"
    ELSE ""

SwmFinish ==
    /\ w_impl = "send_whatsapp_message"
    /\ w_pc = "await"
    /\ mr_pc \in {"returned", "raised"}
    /\ \E text_empty \in BOOLEAN :
         w_result' = IF SwmError(mr_outcome, text_empty) = ""
                     THEN Returned("None")
                     ELSE Raised(SwmError(mr_outcome, text_empty))
    /\ w_pc' = "done"
    /\ mr_pc' = "idle"
    /\ mr_attempt' = 0
    /\ mr_trace' = << >>
    /\ mr_outcome' = NoOutcome
    /\ UNCHANGED <<w_impl, w_args, w_clean_number, w_posts>>

----------------------------------------------------------------------------
\* WhatsAppService.send_message (whatsapp_service.py:14-56)

\* the keys of the config dict the method reads (lines 18-22)
ws_config_complete == env.config_json # "no_token"

\* `response_data.get('error') is not True`
ws_accepts_unless_true(resp) ==
    /\ resp.transport_ok
    /\ resp.ctype_json
    /\ resp.body.shape = "dict"
    /\ resp.body.error # "true"

\* `response_data and response_data.get('error') == False` (line 44); every
\* exception of the try block, response.json() included, gives False
ws_accepts(resp) ==
    /\ resp.transport_ok
    /\ resp.ctype_json
    /\ resp.body.shape = "dict"
    /\ resp.body.error = "false"

\* time.sleep(3) (whatsapp_service.py:48)
post_send_delay == 3

\* lines 45-49: the accepted send sleeps, then returns True
ws_success == [Returned("True") EXCEPT !.slept = post_send_delay]

\* the whole method: one POST at most, True or False returned, nothing raised.
\* Called without its phone_number argument, the call itself raises TypeError.
WsSendMessage ==
    /\ w_impl = "send_message"
    /\ w_pc = "start"
    /\ IF w_args.phone_number.tag = "missing"
       THEN w_result' = Raised("TypeError") /\ w_posts' = w_posts
       ELSE IF ~ws_config_complete
       THEN w_result' = Returned("False") /\ w_posts' = w_posts
       ELSE \E resp \in AnyResponses :
              /\ w_posts' = Append(w_posts,
                                   Post(w_args.phone_number.s, w_args.message, resp))
              /\ w_result' = IF ws_accepts(resp) THEN ws_success ELSE Returned("False")
    /\ w_pc' = "done"
    /\ UNCHANGED <<w_impl, w_args, w_clean_number, mrVars>>

SendIdle ==
    /\ w_impl = "none"
    /\ w_pc = "idle"
    /\ w_args = NoArgs
    /\ w_clean_number = << >>
    /\ w_posts = << >>
    /\ w_result = NoResult

----------------------------------------------------------------------------
\* python/test.py: the message of test_daily_summary

\* python/customs_summary.py:40-41, python/test.py:54
ErrorText ==
    <<"E","r","r","o"," ","a","o"," ","g","e","r","a","r"," ","r","e","s","u","m","o"," ",
      "d","i","á","r","i","o"," ","d","e"," ","t","a","x","a","s"," ","p","e","n","d",
      "e","n","t","e","s","."," ","P","o","r"," ","f","a","v","o","r",","," ","v","e",
      "r","i","f","i","q","u","e"," ","o"," ","s","i","s","t","e","m","a",".">>

\* python/test.py:31
TestPyHeaderText ==
    <<"*","U+1F4E6"," ","R","e","s","u","m","o"," ","D","i","á","r","i","o"," ","-"," ","T",
      "a","x","a","s"," ","P","e","n","d","e","n","t","e","s","*","\n","\n">>

\* python/test.py:33
RastreioText ==
    <<"*","R","a","s","t","r","e","i","o",":","*"," ">>

\* python/test.py:34
StatusLineText ==
    <<"*","S","t","a","t","u","s",":","*"," ">>

\* python/test.py:36
UltimoEventoText ==
    <<"*","Ú","l","t","i","m","o"," ","e","v","e","n","t","o",":","*"," ">>

\* python/test.py:38
RotaText ==
    <<"*","R","o","t","a",":","*"," ">>

\* python/test.py:38
ArrowText ==
    <<" ","→"," ">>

\* python/test.py:40
DiasTransitoText ==
    <<"*","D","i","a","s"," ","e","m"," ","t","r","â","n","s","i","t","o",":","*"," ">>

\* python/test.py:42
DiasAtualizacaoText ==
    <<"*","D","i","a","s"," ","d","e","s","d","e"," ","a","t","u","a","l","i","z","a","ç",
      "ã","o",":","*"," ">>

\* run_automation.py:40
DefaultDeptNumber ==
    <<"5","5","9","4","9","9","1","3","0","7","7","4","4">>

\* what an f-string prints for a value
FText(v) ==
    IF v.tag = "null" THEN NoneText
    ELSE IF v.tag = "num" THEN NumText
    ELSE v.s

\* the lines of one package (test.py:33-43); the list records carry no country
\* and no day counts, so package_info holds '' and None for them
TestPyBlock(package) ==
    RastreioText \o FText(package.tracking_number) \o NewLine
    \o StatusLineText \o FText(package.status) \o NewLine
    \o UltimoEventoText \o FText(package.latest_event) \o NewLine
    \o RotaText \o ArrowText \o NewLine
    \o DiasTransitoText \o NoneText \o NewLine
    \o DiasAtualizacaoText \o NoneText \o NewLine
    \o NewLine

RECURSIVE TestPyBlocks(_, _)
TestPyBlocks(packages, i) ==
    IF i > Len(packages) THEN << >>
    ELSE TestPyBlock(packages[i]) \o TestPyBlocks(packages, i + 1)

\* test.py:31-43
test_py_message(packages) == RetText(TestPyHeaderText \o TestPyBlocks(packages, 1))

----------------------------------------------------------------------------
\* One daily-summary run, from its entry point to the end of the process
\*   generate_summary     automations/daily-summary/scheduler.py:21-29
\*   run_test             automations/daily-summary/test_automation.py:30-63
\*   python_job           python/customs_summary.py:11-42, on an instance whose
\*                        services are a TrackingService and a WhatsAppService
\*   test_daily_summary   python/test.py:12-60
\*   run_automation       automations/run_automation.py:59-111

JobEntries == {"generate_summary", "run_test", "python_job", "test_daily_summary"}

ImplOf(entry) ==
    IF entry \in {"generate_summary", "run_test"} THEN "automations"
    ELSE IF entry = "python_job" THEN "python"
    ELSE IF entry = "test_daily_summary" THEN "test_py"
    ELSE "child"

NoRunResult == [job |-> "none", exit |-> "none", error |-> ""]
Ended(job, exit, error) == [job |-> job, exit |-> exit, error |-> error]

\* an exception that leaves the entry point: asyncio.run(run_test()) and
\* test_daily_summary() end the process; a scheduled job leaves it running
ExitOnRaise(entry) ==
    IF entry \in {"run_test", "test_daily_summary"} THEN "nonzero" ELSE "running"

\* the entry point returns
ExitOnReturn(entry) ==
    IF entry \in {"run_test", "test_daily_summary"} THEN "zero" ELSE "running"

\* the config dict both get_config functions build (scheduler.py:15-19,
\* test_automation.py:18-21): both keys are always there, the values may be None
config == [endpoint |-> env.TRACK17_API_URL, api_key |-> env.TRACK17_API_KEY]

\* missing = [key for key in required if key not in config]
validate_config(cfg) == {key \in {"endpoint", "api_key"} : key \notin DOMAIN cfg}

\* the variables config.py requires at import (python/config.py:19-21, 39)
PyRequiredEnv == <<"WAPI_URL", "WAPI_TOKEN", "WAPI_CONNECTION_KEY", "TRACK17_API_KEY">>

\* what stops an entry point before generate_daily_summary runs, "" if nothing
StartError(entry) ==
    IF entry = "run_test"
    THEN \* get_config: missing = [key for key, value in config.items() if not value]
         IF \E key \in DOMAIN config : ~Truthy(config[key]) THEN "ValueError"
         ELSE IF validate_config(config) # {} THEN "ValueError"
         ELSE ""
    ELSE IF entry = "generate_summary"
    THEN \* CustomsSummary(config): validate_config, then config['endpoint'].rstrip('/')
         IF validate_config(config) # {} THEN "ValueError"
         ELSE IF config.endpoint.tag # "str" THEN "AttributeError"
         ELSE ""
    ELSE \* `from tracking_service import TrackingService` imports config.py
         IF \E i \in 1..Len(PyRequiredEnv) : ~Truthy(env[PyRequiredEnv[i]]) THEN "Exception"
         ELSE IF entry = "test_daily_summary" /\ env.config_json = "absent"
         THEN "FileNotFoundError"
         ELSE ""

\* what a run did: a list fetch of the tracking provider, or a finished send
FetchEvent == [kind |-> "tracking_request", posts |-> 0, status |-> ""]
SendEvent(kind, posts, status) == [kind |-> kind, posts |-> posts, status |-> status]

\* config.json's whatsapp.whatsappNumber
ConfigNumber == Str(SomeNumber)

\* the phone_number argument each job passes to send_message
PhoneArgument == IF r_impl = "test_py" THEN ConfigNumber ELSE Missing

\* the except clause of the job: the automation logs and re-raises
\* (customs_summary.py:370-372), the python jobs send the failure message
\* (python/customs_summary.py:38-42, test.py:49-55)
Fail(error) ==
    IF r_impl = "automations"
    THEN /\ r_pc' = "ended"
         /\ r_result' = Ended("raised", ExitOnRaise(r_entry), error)
         /\ UNCHANGED wVars
    ELSE /\ r_pc' = "notify"
         /\ r_result' = r_result
         /\ SendEnter("send_message", ErrorText, PhoneArgument)

\* the entry point loads its configuration and builds the job
RunStart ==
    /\ r_entry \in JobEntries
    /\ r_pc = "start"
    /\ IF StartError(r_entry) # ""
       THEN /\ r_pc' = "ended"
            /\ r_result' = Ended("not_started", ExitOnRaise(r_entry), StartError(r_entry))
       ELSE /\ r_pc' = "fetch"
            /\ r_result' = r_result
    /\ UNCHANGED <<r_entry, r_impl, r_events, env, mrVars, fVars, sVars, wVars, dVars, rdVars>>

\* the detail records a run's fetch hands to the classifier
RunPackages ==
    {p \in PackageShapes :
        \/ p.tag = "null"
        \/ /\ p.track_info.tag = "dict"
           /\ p.track_info.latest_status.tag = "dict"
           /\ p.track_info.latest_status.status \in
                {Str(<<"D","e","l","i","v","e","r","e","d">>), Str(<<"a","l","e","r","t">>)}
           /\ p.track_info.latest_event.description \in
                {Str(<<"D","e","l","i","v","e","r","e","d">>),
                 Str(<<"C","a","r","r","i","e","r"," ","n","o","t","e">>), Null}}

\* the list records a python run's fetch reads
RunItems == {i \in ItemShapes : i.tag = "dict" /\ i.number.tag # "null"}

\* the list stage of the job: get_all_packages and get_detailed_packages
\* (customs_summary.py:97-102), or the page loop of TrackingService
\* (tracking_service.py:134-194). It raises, or hands its records on; a request
\* to an empty endpoint URL cannot be sent
RunFetch ==
    /\ r_pc = "fetch"
    /\ LET can_request == r_impl # "automations" \/ Truthy(config.endpoint) IN
       /\ r_events' = IF can_request THEN Append(r_events, FetchEvent) ELSE r_events
       /\ \/ /\ Fail("fetch")
             /\ UNCHANGED sVars
          \/ /\ can_request
             /\ r_pc' = "stages"
             /\ r_result' = r_result
             /\ s_impl' = IF r_impl = "automations" THEN "automations" ELSE "python"
             /\ s_pc' = "classify"
             /\ s_detailed' \in
                  IF r_impl = "automations"
                  THEN {Numbered(l) : l \in ListsUpTo(RunPackages, MaxPkgs)}
                  ELSE {Numbered(l) : l \in ListsUpTo(RunItems, MaxPkgs)}
             /\ s_i' = 1
             /\ s_verdicts' = << >>
             /\ s_pending' = << >>
             /\ s_message' = EmptyMessage
             /\ UNCHANGED wVars
    /\ UNCHANGED <<r_entry, r_impl, env, mrVars, fVars, dVars, rdVars>>

\* test.py:26-43: nothing is sent for an empty list
TestPyFormat ==
    /\ r_impl = "test_py"
    /\ s_impl = "python"
    /\ s_pc = "classify"
    /\ s_i > Len(s_detailed)
    /\ IF Len(s_pending) = 0
       THEN /\ s_message' = s_message
            /\ s_pc' = "skipped"
       ELSE /\ s_message' = test_py_message(s_pending)
            /\ s_pc' = "formatted"
    /\ UNCHANGED <<s_impl, s_detailed, s_i, s_verdicts, s_pending>>

\* the message is handed to the sender (customs_summary.py:363,
\* python/customs_summary.py:22 and 35, test.py:46-47)
RunSend ==
    /\ r_pc = "stages"
    /\ s_pc = "formatted"
    /\ r_pc' = "send"
    /\ SendEnter(IF r_impl = "automations" THEN "send_whatsapp_message" ELSE "send_message",
                 s_message.text, PhoneArgument)
    /\ UNCHANGED <<r_entry, r_impl, r_events, r_result, env, mrVars, fVars, sVars, dVars, rdVars>>

\* no message was built: the job returns (customs_summary.py:365-368, test.py:26-28)
RunSkip ==
    /\ r_pc = "stages"
    /\ s_pc = "skipped"
    /\ r_pc' = "ended"
    /\ r_result' = Ended("returned", ExitOnReturn(r_entry), "")
    /\ UNCHANGED <<r_entry, r_impl, r_events, env, mrVars, fVars, sVars, wVars, dVars, rdVars>>

\* the classifier or the formatter raised
RunStageFail ==
    /\ r_pc = "stages"
    /\ s_pc \in {"classify_raised", "format_raised"}
    /\ Fail(s_pc)
    /\ UNCHANGED <<r_entry, r_impl, r_events, env, mrVars, fVars, sVars, dVars, rdVars>>

\* the summary send is over. `await` on what send_message returned, a bool,
\* raises TypeError in python/customs_summary.py
RunAfterSend ==
    /\ r_pc = "send"
    /\ w_pc = "done"
    /\ r_events' = Append(r_events, SendEvent("summary", Len(w_posts), w_result.status))
    /\ IF w_result.status = "raised"
       THEN Fail(w_result.error)
       ELSE IF r_impl = "python"
       THEN Fail("TypeError")
       ELSE /\ r_pc' = "ended"
            /\ r_result' = Ended("returned", ExitOnReturn(r_entry), "")
            /\ UNCHANGED wVars
    /\ UNCHANGED <<r_entry, r_impl, env, mrVars, fVars, sVars, dVars, rdVars>>

\* the failure send is over (python/customs_summary.py:42, test.py:51-57)
RunAfterNotify ==
    /\ r_pc = "notify"
    /\ w_pc = "done"
    /\ r_events' = Append(r_events, SendEvent("failure", Len(w_posts), w_result.status))
    /\ r_pc' = "ended"
    /\ r_result' =
         IF w_result.status = "raised"
         THEN Ended("raised", ExitOnRaise(r_entry), w_result.error)
         ELSE IF r_impl = "python"
         THEN Ended("raised", ExitOnRaise(r_entry), "TypeError")
         ELSE Ended("returned", ExitOnReturn(r_entry), "")
    /\ UNCHANGED <<r_entry, r_impl, env, mrVars, fVars, sVars, wVars, dVars, rdVars>>

\* the variables load_env_variables requires (run_automation.py:33-41); only
\* TECHNICAL_DEPT_NUMBER has a default
RequiredVars ==
    <<"TRACK17_API_URL", "TRACK17_API_KEY", "TRACK17_STATUS_PATH", "WAPI_URL",
      "WAPI_TOKEN", "WAPI_CONNECTION_KEY">>

\* run_automation.py:59-111: the variables are checked, the child script is run
\* and its return code decides between returning and sys.exit(1)
RunAutomation ==
    /\ r_entry = "run_automation"
    /\ r_pc = "start"
    /\ r_pc' = "ended"
    /\ IF \E i \in 1..Len(RequiredVars) : ~Truthy(env[RequiredVars[i]])
       THEN /\ r_result' = Ended("not_started", "nonzero", "ValueError")
            /\ UNCHANGED <<r_events, env>>
       ELSE /\ env' = IF Truthy(env.TECHNICAL_DEPT_NUMBER) THEN env
                      ELSE [env EXCEPT !.TECHNICAL_DEPT_NUMBER = SetTo(DefaultDeptNumber)]
            /\ \E returncode \in {0, 1} :
                 /\ r_events' = Append(r_events, SendEvent("child", 0,
                                           IF returncode = 0 THEN "returned" ELSE "raised"))
                 /\ r_result' = IF returncode # 0
                                THEN Ended("raised", "nonzero", "Exception")
                                ELSE Ended("returned", "zero", "")
    /\ UNCHANGED <<r_entry, r_impl, mrVars, fVars, sVars, wVars, dVars, rdVars>>

RunIdle ==
    /\ r_entry = "none"
    /\ r_impl = "none"
    /\ r_pc = "idle"
    /\ r_events = << >>
    /\ r_result = NoRunResult

\* nothing but the part under study runs
NoRun == env = EnvAllSet /\ SendIdle /\ RunIdle

----------------------------------------------------------------------------
\* CustomsSummary.get_detailed_packages (customs_summary.py:150-177)

batch_size == 40

\* the records 1..n in the provider's order
Shipments(n) == [i \in 1..n |-> i]

Least(a, b) == IF a <= b THEN a ELSE b

\* packages[i:i + batch_size + 1] : a slice one entry too long
BatchAt_one_more(packages, i) ==
    SubSeq(packages, i + 1, Least(i + batch_size + 1, Len(packages)))

\* batch = packages[i:i + batch_size], i counted from 0 (line 161)
BatchAt(packages, i) == SubSeq(packages, i + 1, Least(i + batch_size, Len(packages)))

\* the answers to the detail request for a batch of n entries
DetailResponses(n) ==
    {TransportError,
     JsonResponse(Body("dict", "missing", "nonzero", "missing", 0, NoPage)),
     JsonResponse(Body("dict", "missing", "zero", "missing", 0, NoPage)),
     JsonResponse(Body("dict", "missing", "zero", "accepted", n, NoPage))}

\* the state of a call that has just been entered
GdpEnter(packages, bad_id) ==
    /\ d_pc' = "start"
    /\ d_input' = [packages |-> packages, bad_id |-> bad_id]
    /\ d_i' = 0
    /\ d_batches' = << >>
    /\ d_http' = << >>
    /\ d_detailed' = << >>
    /\ d_error' = ""

\* `if not packages: return []`, else the loop is entered (lines 152-160)
GdpStart ==
    /\ d_pc = "start"
    /\ d_pc' = IF Len(d_input.packages) = 0 THEN "returned" ELSE "loop"
    /\ UNCHANGED <<d_input, d_i, d_batches, d_http, d_detailed, d_error, mrVars>>

\* the loop body up to make_request (lines 161-169): the batch is sliced and
\* track_data is built from it, pkg["number"] and pkg["carrier"] raising
\* KeyError on a record without them
GdpBatch ==
    /\ d_pc = "loop"
    /\ LET batch == BatchAt(d_input.packages, d_i) IN
       IF \E j \in 1..Len(batch) : batch[j] = d_input.bad_id
       THEN /\ d_pc' = "raised"
            /\ d_error' = "KeyError"
            /\ UNCHANGED <<d_batches, mrVars>>
       ELSE /\ d_pc' = "await"
            /\ d_batches' = Append(d_batches, batch)
            /\ d_error' = d_error
            /\ MrEnter
    /\ UNCHANGED <<d_input, d_i, d_http, d_detailed>>

\* make_request issues the detail request for the batch
GdpAttempt ==
    /\ d_pc = "await"
    /\ LET batch == d_batches[Len(d_batches)] IN
       /\ \E resp \in DetailResponses(Len(batch)) : MrTry(resp)
       /\ d_http' = Append(d_http, [batch |-> Len(d_batches), entries |-> batch])
    /\ UNCHANGED <<d_pc, d_input, d_i, d_batches, d_detailed, d_error>>

\* make_request waits before its next attempt
GdpBackoff ==
    /\ d_pc = "await"
    /\ MrSleep
    /\ UNCHANGED dVars

\* the exception lines 171-174 raise on what make_request returned, "" if none
GdpError(outcome) ==
    IF outcome.status = "raised" THEN outcome.error
    ELSE IF outcome.status = "returned_none" \/ ~outcome.resp.ctype_json
    THEN "AttributeError"
    ELSE IF outcome.resp.body.code # "zero" THEN "ValueError"
    ELSE IF outcome.resp.body.data = "null" THEN "AttributeError"
    ELSE ""

\* the rest of the loop body, once make_request has returned or raised; the
\* details of a batch are those of its first n entries
GdpProcess ==
    /\ d_pc = "await"
    /\ mr_pc \in {"returned", "raised"}
    /\ IF GdpError(mr_outcome) # ""
       THEN /\ d_pc' = "raised"
            /\ d_error' = GdpError(mr_outcome)
            /\ UNCHANGED <<d_i, d_detailed>>
       ELSE LET batch == d_batches[Len(d_batches)]
                body == mr_outcome.resp.body
                batch_details == IF body.data = "accepted"
                                 THEN SubSeq(batch, 1, body.n)
                                 ELSE << >>
            IN
            /\ d_detailed' = d_detailed \o batch_details
            /\ d_i' = d_i + batch_size
            /\ d_pc' = IF d_i + batch_size < Len(d_input.packages)
                       THEN "loop" ELSE "returned"
            /\ d_error' = d_error
    /\ mr_pc' = "idle"
    /\ mr_attempt' = 0
    /\ mr_trace' = << >>
    /\ mr_outcome' = NoOutcome
    /\ UNCHANGED <<d_input, d_batches, d_http>>

\* get_packages_with_pending_customs hands the list of get_all_packages to
\* get_detailed_packages (customs_summary.py:97-102)
PipeDetail ==
    /\ f_impl = "get_all_packages"
    /\ f_pc = "returned"
    /\ d_pc = "idle"
    /\ GdpEnter(f_collected, f_provider.bad_id)
    /\ UNCHANGED <<mrVars, fVars>>

----------------------------------------------------------------------------
\* Text codecs of the Redis repair scripts. A str is a sequence of code
\* points, a bytes value a sequence of numbers below 256.

\* one code point in UTF-8
Utf8EncodeCp(c) ==
    IF c < 128 THEN <<c>>
    ELSE IF c < 2048 THEN <<192 + (c \div 64), 128 + (c % 64)>>
    ELSE IF c < 65536
    THEN <<224 + (c \div 4096), 128 + ((c \div 64) % 64), 128 + (c % 64)>>
    ELSE <<240 + (c \div 262144), 128 + ((c \div 4096) % 64),
           128 + ((c \div 64) % 64), 128 + (c % 64)>>

\* str.encode('utf-8'), what redis-py does to every str it sends
RECURSIVE Utf8Encode(_)
Utf8Encode(cps) ==
    IF Len(cps) = 0 THEN << >>
    ELSE Utf8EncodeCp(cps[1]) \o Utf8Encode(Tail(cps))

IsContinuation(b) == b >= 128 /\ b < 192

\* the i-th to (i + n - 1)-th bytes are there and the last n - 1 continue the first
HasSequence(bytes, i, n) ==
    /\ i + n - 1 <= Len(bytes)
    /\ \A j \in 1..(n - 1) : IsContinuation(bytes[i + j])

\* the code point that starts at byte i and the bytes it takes; len 0 when
\* the bytes are not valid UTF-8 there
Utf8Next(bytes, i) ==
    LET b == bytes[i] IN
    IF b < 128 THEN [len |-> 1, cp |-> b]
    ELSE IF b >= 194 /\ b <= 223 /\ HasSequence(bytes, i, 2)
    THEN [len |-> 2, cp |-> (b - 192) * 64 + (bytes[i + 1] - 128)]
    ELSE IF b >= 224 /\ b <= 239 /\ HasSequence(bytes, i, 3)
    THEN LET cp == (b - 224) * 4096 + (bytes[i + 1] - 128) * 64 + (bytes[i + 2] - 128) IN
         IF cp >= 2048 /\ ~(cp >= 55296 /\ cp <= 57343)
         THEN [len |-> 3, cp |-> cp] ELSE [len |-> 0, cp |-> 0]
    ELSE IF b >= 240 /\ b <= 244 /\ HasSequence(bytes, i, 4)
    THEN LET cp == (b - 240) * 262144 + (bytes[i + 1] - 128) * 4096
                   + (bytes[i + 2] - 128) * 64 + (bytes[i + 3] - 128) IN
         IF cp >= 65536 /\ cp <= 1114111
         THEN [len |-> 4, cp |-> cp] ELSE [len |-> 0, cp |-> 0]
    ELSE [len |-> 0, cp |-> 0]

\* bytes.decode('utf8'): ok is FALSE where Python raises UnicodeDecodeError
RECURSIVE Utf8DecodeFrom(_, _)
Utf8DecodeFrom(bytes, i) ==
    IF i > Len(bytes) THEN [ok |-> TRUE, cps |-> << >>]
    ELSE LET next == Utf8Next(bytes, i) IN
         IF next.len = 0 THEN [ok |-> FALSE, cps |-> << >>]
         ELSE LET rest == Utf8DecodeFrom(bytes, i + next.len) IN
              [ok |-> rest.ok, cps |-> <<next.cp>> \o rest.cps]

Utf8Decode(bytes) == Utf8DecodeFrom(bytes, 1)

\* str.encode('latin1'): ok is FALSE where Python raises UnicodeEncodeError
Latin1Encode(cps) ==
    [ok |-> \A i \in 1..Len(cps) : cps[i] < 256, bytes |-> cps]

\* bytes.decode('latin1'): every byte is a code point
Latin1Decode(bytes) == bytes

----------------------------------------------------------------------------
\* The Redis store the repair scripts work on. A key is the sequence of the
\* parts of its name between colons.

\* what a key holds: nothing, a hash (a set of field/value pairs of bytes) or
\* a string; ttl is what TTL answers: -2 no key, -1 no expiry, else seconds
NoKey == [kind |-> "none", fields |-> {}, value |-> << >>, ttl |-> -2]
HashKey(fields, ttl) == [kind |-> "hash", fields |-> fields, value |-> << >>, ttl |-> ttl]
StringKey(value, ttl) == [kind |-> "string", fields |-> {}, value |-> value, ttl |-> ttl]

ProdutoKey == <<"ortopedic", "produto", "1">>
ProdutoKeyLatin1 == <<"ortopedic", "produto", "caf<E9>">>
CacheKey == <<"ortopedic", "cache">>
TrackingKey == <<"tracking", "1">>
AiProcessedKey == <<"ai_processed", "1">>
ChatUndefinedKey == <<"chat", "undefined">>

KeyPool ==
    {ProdutoKey, ProdutoKeyLatin1, CacheKey, TrackingKey, AiProcessedKey,
     <<"ecommerce">> \o AiProcessedKey, ChatUndefinedKey}

\* the key's name is valid UTF-8
KeyIsUtf8(key) == key # ProdutoKeyLatin1

\* the keys KEYS answers for the pattern 'prefix:*'
Keys(store, prefix) ==
    {key \in DOMAIN store :
        /\ store[key].kind # "none"
        /\ Len(key) > Len(prefix)
        /\ SubSeq(key, 1, Len(prefix)) = prefix}

\* the ttls table of fix_redis (fix_redis.py:20-29), in seconds
ttls ==
    [tracking |-> 30 * 24 * 60 * 60, ortopedic |-> 7 * 24 * 60 * 60,
     openai |-> 30 * 24 * 60 * 60, chat |-> 30 * 24 * 60 * 60,
     context |-> 7 * 24 * 60 * 60, thread |-> 30 * 24 * 60 * 60,
     processing |-> 24 * 60 * 60, ecommerce |-> 30 * 24 * 60 * 60]

\* v.encode('latin1').decode('utf8') on a stored value read as text
\* (fix_redis.py:41)
Recode(value) ==
    LET enc == Latin1Encode(Utf8Decode(value).cps) IN
    IF enc.ok THEN Utf8Decode(enc.bytes) ELSE [ok |-> FALSE, cps |-> << >>]

\* one pass of the loop over the ortopedic keys in fix_redis (lines 34-45):
\* what the key holds afterwards, and whether the except clause was taken.
\* HGETALL decodes names and values as UTF-8 and raises where it cannot; the
\* key is deleted before the mapping of line 41 is computed.
FixRedisKey(entry) ==
    IF entry.kind = "none" THEN [entry |-> entry, failed |-> FALSE]
    ELSE IF entry.kind # "hash" THEN [entry |-> entry, failed |-> TRUE]
    ELSE IF \E f \in entry.fields : ~Utf8Decode(f.field).ok \/ ~Utf8Decode(f.value).ok
    THEN [entry |-> entry, failed |-> TRUE]
    ELSE IF \E f \in entry.fields : ~Recode(f.value).ok
    THEN [entry |-> NoKey, failed |-> TRUE]
    ELSE [entry |-> HashKey({[field |-> f.field, value |-> Utf8Encode(Recode(f.value).cps)] :
                                f \in entry.fields},
                            ttls.ortopedic),
          failed |-> FALSE]

\* ttl = 7 * 24 * 60 * 60 (fix_ortopedic_encoding.py:24)
produto_ttl == 604800

\* one pass of the loop in fix_ortopedic_encoding (lines 26-65): names and
\* values are bytes; 'latin1', the first encoding tried, decodes every byte
\* string, so every field is fixed; the key is deleted, its name decoded as
\* UTF-8 and the decoded hash written under it.
FixProdutoKey(key, entry) ==
    IF entry.kind = "none" THEN [entry |-> entry, failed |-> FALSE]
    ELSE IF entry.kind # "hash" THEN [entry |-> entry, failed |-> TRUE]
    ELSE IF ~KeyIsUtf8(key) THEN [entry |-> NoKey, failed |-> TRUE]
    ELSE [entry |-> HashKey({[field |-> Utf8Encode(Latin1Decode(f.field)),
                              value |-> Utf8Encode(Latin1Decode(f.value))] :
                                f \in entry.fields},
                            produto_ttl),
          failed |-> FALSE]

\* EXPIRE on the keys of a prefix that have no expiry (fix_redis.py:48-57, 85-93)
ExpireUnset(store, prefix, seconds) ==
    [key \in DOMAIN store |->
        IF key \in Keys(store, <<prefix>>) /\ store[key].ttl = -1
        THEN [store[key] EXCEPT !.ttl = seconds]
        ELSE store[key]]

\* the ai_processed:* strings moved under ecommerce: (fix_redis.py:62-75); GET
\* raises on a key that is not a string, SET drops the expiry of its target
MoveAiProcessed(store) ==
    LET moved == {key \in Keys(store, <<"ai_processed">>) :
                    store[key].kind = "string" /\ Len(store[key].value) > 0}
    IN
    [key \in DOMAIN store |->
        IF key \in moved THEN NoKey
        ELSE IF \E old \in moved : key = <<"ecommerce">> \o old
        THEN LET old == CHOOSE o \in moved : key = <<"ecommerce">> \o o IN
             StringKey(store[old].value, IF store[old].ttl > 0 THEN store[old].ttl ELSE -1)
        ELSE store[key]]

\* chat:undefined removed (fix_redis.py:79-81)
RemoveInvalid(store) ==
    [key \in DOMAIN store |-> IF key = ChatUndefinedKey THEN NoKey ELSE store[key]]

\* steps 6 of fix_redis: the table's expiry on every key without one
RECURSIVE ApplyTtls(_, _)
ApplyTtls(store, prefixes) ==
    IF prefixes = {} THEN store
    ELSE LET prefix == CHOOSE p \in prefixes : TRUE IN
         ApplyTtls(ExpireUnset(store, prefix, ttls[prefix]), prefixes \ {prefix})

\* steps 3 to 6 of fix_redis (lines 47-95)
Housekeeping(store) ==
    ApplyTtls(RemoveInvalid(MoveAiProcessed(ExpireUnset(store, "tracking", ttls.tracking))),
              DOMAIN ttls)

\* bound: the runs of a script on one store
MaxRuns == 2

\* the script starts (fix_redis.py:14-33, fix_ortopedic_encoding.py:14-24):
\* the keys of the pattern are listed. fix_redis reads names as text, and
\* KEYS raises on a name that is not UTF-8, which ends the script.
RdStart ==
    /\ rd_pc \in {"start", "done"}
    /\ rd_runs < MaxRuns
    /\ rd_before' = rd_store
    /\ rd_failed' = {}
    /\ rd_store' = rd_store
    /\ IF rd_script = "fix_redis"
       THEN LET keys == Keys(rd_store, <<"ortopedic">>) IN
            IF \E key \in keys : ~KeyIsUtf8(key)
            THEN /\ rd_pc' = "done"
                 /\ rd_todo' = {}
                 /\ rd_runs' = rd_runs + 1
                 /\ rd_first' = IF rd_runs = 0 THEN rd_store ELSE rd_first
            ELSE /\ rd_pc' = "ortopedic"
                 /\ rd_todo' = keys
                 /\ UNCHANGED <<rd_runs, rd_first>>
       ELSE /\ rd_pc' = "ortopedic"
            /\ rd_todo' = Keys(rd_store, <<"ortopedic", "produto">>)
            /\ UNCHANGED <<rd_runs, rd_first>>
    /\ UNCHANGED rd_script

\* fix_redis visits one of the keys listed
RdFixKey ==
    /\ rd_script = "fix_redis"
    /\ rd_pc = "ortopedic"
    /\ \E key \in rd_todo :
         LET fixed == FixRedisKey(rd_store[key]) IN
         /\ rd_store' = [rd_store EXCEPT ![key] = fixed.entry]
         /\ rd_failed' = IF fixed.failed THEN rd_failed \cup {key} ELSE rd_failed
         /\ rd_todo' = rd_todo \ {key}
    /\ UNCHANGED <<rd_script, rd_pc, rd_runs, rd_before, rd_first>>

\* fix_ortopedic_encoding visits one of the keys listed
RdFixProduto ==
    /\ rd_script = "fix_ortopedic_encoding"
    /\ rd_pc = "ortopedic"
    /\ \E key \in rd_todo :
         LET fixed == FixProdutoKey(key, rd_store[key]) IN
         /\ rd_store' = [rd_store EXCEPT ![key] = fixed.entry]
         /\ rd_failed' = IF fixed.failed THEN rd_failed \cup {key} ELSE rd_failed
         /\ rd_todo' = rd_todo \ {key}
    /\ UNCHANGED <<rd_script, rd_pc, rd_runs, rd_before, rd_first>>

\* the loop over the ortopedic keys is over: fix_redis goes through its steps
\* 3 to 6, and the script ends
RdFinish ==
    /\ rd_pc = "ortopedic"
    /\ rd_todo = {}
    /\ rd_store' = IF rd_script = "fix_redis" THEN Housekeeping(rd_store) ELSE rd_store
    /\ rd_runs' = rd_runs + 1
    /\ rd_first' = IF rd_runs = 0 THEN rd_store' ELSE rd_first
    /\ rd_pc' = "done"
    /\ UNCHANGED <<rd_script, rd_todo, rd_before, rd_failed>>

----------------------------------------------------------------------------
\* Nothing else is running

DetailIdle ==
    /\ d_pc = "idle"
    /\ d_input = [packages |-> << >>, bad_id |-> 0]
    /\ d_i = 0
    /\ d_batches = << >>
    /\ d_http = << >>
    /\ d_detailed = << >>
    /\ d_error = ""

RedisIdle ==
    /\ rd_script = "none"
    /\ rd_pc = "idle"
    /\ rd_store = << >>
    /\ rd_todo = {}
    /\ rd_runs = 0
    /\ rd_before = << >>
    /\ rd_first = << >>
    /\ rd_failed = {}

----------------------------------------------------------------------------
\* Specifications

\* one call of make_request against an arbitrary endpoint
InitRetry ==
    /\ DetailIdle
    /\ RedisIdle
    /\ mr_pc = "try"
    /\ mr_attempt = 0
    /\ mr_trace = << >>
    /\ mr_outcome = NoOutcome
    /\ FetchIdle
    /\ SummaryIdle
    /\ NoRun

MrRequest ==
    /\ f_pc = "idle"
    /\ \E resp \in AnyResponses : MrTry(resp)
    /\ UNCHANGED <<fVars, sVars, env, wVars, rVars, dVars, rdVars>>

MrBackoff ==
    /\ f_pc = "idle"
    /\ MrSleep
    /\ UNCHANGED <<fVars, sVars, env, wVars, rVars, dVars, rdVars>>

NextRetry == MrRequest \/ MrBackoff

SpecRetry == InitRetry /\ [][NextRetry]_vars

\* one list fetch, by each of the three implementations
InitFetch ==
    /\ DetailIdle
    /\ RedisIdle
    /\ MrIdle
    /\ SummaryIdle
    /\ NoRun
    /\ f_impl \in {"get_all_packages"} \cup TsImpls
    /\ f_provider \in [page : PageInfos, bad_id : {0, 1, 2}]
    /\ f_pc = "loop"
    /\ f_page = 1
    /\ f_total_pages = 1
    /\ f_collected = << >>
    /\ f_served = 0
    /\ f_requests = << >>
    /\ f_responses = << >>

NextFetch ==
    \/ (GapRequest /\ UNCHANGED <<sVars, env, wVars, rVars, dVars, rdVars>>)
    \/ (GapAttempt /\ UNCHANGED <<sVars, env, wVars, rVars, dVars, rdVars>>)
    \/ (GapBackoff /\ UNCHANGED <<sVars, env, wVars, rVars, dVars, rdVars>>)
    \/ (GapProcess /\ UNCHANGED <<sVars, env, wVars, rVars, dVars, rdVars>>)
    \/ (TsIterate /\ UNCHANGED <<sVars, env, wVars, rVars, dVars, rdVars>>)

SpecFetch == InitFetch /\ [][NextFetch]_vars

\* the classify and format stages on a list of records
InitSummary ==
    /\ DetailIdle
    /\ RedisIdle
    /\ MrIdle
    /\ FetchIdle
    /\ NoRun
    /\ s_i = 1
    /\ s_verdicts = << >>
    /\ s_message = EmptyMessage
    /\ \/ /\ s_impl = "automations"
          /\ s_detailed \in {Numbered(l) : l \in ListsUpTo(PackageShapes, MaxPkgs)}
          /\ \/ s_pc = "classify" /\ s_pending = << >>
             \/ s_pc = "format" /\ s_pending = s_detailed
       \/ /\ s_impl = "python"
          /\ s_detailed \in {Numbered(l) : l \in ListsUpTo(ItemShapes, MaxPkgs)}
          /\ s_pc = "classify"
          /\ s_pending = << >>

NextSummary ==
    \/ (CsClassify /\ UNCHANGED <<mrVars, fVars, env, wVars, rVars, dVars, rdVars>>)
    \/ (CsFormat /\ UNCHANGED <<mrVars, fVars, env, wVars, rVars, dVars, rdVars>>)
    \/ (CsFormatCall /\ UNCHANGED <<mrVars, fVars, env, wVars, rVars, dVars, rdVars>>)
    \/ (PyClassify /\ UNCHANGED <<mrVars, fVars, env, wVars, rVars, dVars, rdVars>>)
    \/ (PyFormat /\ UNCHANGED <<mrVars, fVars, env, wVars, rVars, dVars, rdVars>>)

SpecSummary == InitSummary /\ [][NextSummary]_vars

\* the classifiers on one record: every status with every description
InitClassify ==
    /\ DetailIdle
    /\ RedisIdle
    /\ MrIdle
    /\ FetchIdle
    /\ NoRun
    /\ s_i = 1
    /\ s_verdicts = << >>
    /\ s_message = EmptyMessage
    /\ s_pc = "classify"
    /\ s_pending = << >>
    /\ \/ s_impl = "automations" /\ s_detailed \in {Numbered(<<p>>) : p \in AllPackages}
       \/ s_impl = "python" /\ s_detailed \in {Numbered(<<i>>) : i \in AllItems}

NextClassify ==
    \/ (CsClassify /\ UNCHANGED <<mrVars, fVars, env, wVars, rVars, dVars, rdVars>>)
    \/ (CsFormat /\ UNCHANGED <<mrVars, fVars, env, wVars, rVars, dVars, rdVars>>)
    \/ (PyClassify /\ UNCHANGED <<mrVars, fVars, env, wVars, rVars, dVars, rdVars>>)
    \/ (PyFormat /\ UNCHANGED <<mrVars, fVars, env, wVars, rVars, dVars, rdVars>>)

SpecClassify == InitClassify /\ [][NextClassify]_vars

\* bound: the longest destination number tried
MaxPhoneLen == 3

PhoneChars == {"5", "1", "-", " "}

\* the destination numbers tried: every text of at most MaxPhoneLen characters,
\* and two numbers as they are written in practice
PhonePool ==
    UNION {[1..n -> PhoneChars] : n \in 0..MaxPhoneLen}
    \cup {<<"(","5","5",")"," ","1","1"," ","9","9","9","9","9","-","8","8","8","8">>,
          <<"1","1","9","9","9","9","9","8","8","8","8">>}

\* an environment with one setting unset or empty, or a config.json at fault
FaultyEnvs ==
    {[EnvAllSet EXCEPT ![k] = v] :
        k \in (DOMAIN EnvAllSet) \ {"config_json"}, v \in {Unset, SetTo(<< >>)}}
    \cup {[EnvAllSet EXCEPT !.config_json = c] : c \in {"absent", "no_token"}}

\* one send, by each of the two senders
InitSend ==
    /\ DetailIdle
    /\ RedisIdle
    /\ MrIdle
    /\ FetchIdle
    /\ SummaryIdle
    /\ RunIdle
    /\ w_pc = "start"
    /\ w_clean_number = << >>
    /\ w_posts = << >>
    /\ w_result = NoResult
    /\ \/ /\ w_impl = "send_whatsapp_message"
          /\ w_args = [message |-> ErrorText, phone_number |-> Missing]
          /\ env \in {[EnvAllSet EXCEPT !.TECHNICAL_DEPT_NUMBER = SetTo(n)] : n \in PhonePool}
                     \cup FaultyEnvs
       \/ /\ w_impl = "send_message"
          /\ w_args \in [message : {ErrorText}, phone_number : {ConfigNumber, Missing}]
          /\ env \in {EnvAllSet, [EnvAllSet EXCEPT !.config_json = "no_token"]}

NextSend ==
    \/ (SwmStart /\ UNCHANGED <<fVars, sVars, env, rVars, dVars, rdVars>>)
    \/ (SwmAttempt /\ UNCHANGED <<fVars, sVars, env, rVars, dVars, rdVars>>)
    \/ (SwmBackoff /\ UNCHANGED <<fVars, sVars, env, rVars, dVars, rdVars>>)
    \/ (SwmFinish /\ UNCHANGED <<fVars, sVars, env, rVars, dVars, rdVars>>)
    \/ (WsSendMessage /\ UNCHANGED <<fVars, sVars, env, rVars, dVars, rdVars>>)

SpecSend == InitSend /\ [][NextSend]_vars

\* one run of each entry point, in every environment with at most one fault
InitRun ==
    /\ DetailIdle
    /\ RedisIdle
    /\ MrIdle
    /\ FetchIdle
    /\ SummaryIdle
    /\ SendIdle
    /\ r_entry \in JobEntries \cup {"run_automation"}
    /\ r_impl = ImplOf(r_entry)
    /\ r_pc = "start"
    /\ r_events = << >>
    /\ r_result = NoRunResult
    /\ env \in {EnvAllSet} \cup FaultyEnvs
               \cup {[EnvAllSet EXCEPT !.TECHNICAL_DEPT_NUMBER = SetTo(<<"-">>)]}

NextRun ==
    \/ RunStart
    \/ RunFetch
    \/ (CsClassify /\ UNCHANGED <<mrVars, fVars, env, wVars, rVars, dVars, rdVars>>)
    \/ (CsFormat /\ UNCHANGED <<mrVars, fVars, env, wVars, rVars, dVars, rdVars>>)
    \/ (PyClassify /\ UNCHANGED <<mrVars, fVars, env, wVars, rVars, dVars, rdVars>>)
    \/ (r_impl = "python" /\ PyFormat /\ UNCHANGED <<mrVars, fVars, env, wVars, rVars, dVars, rdVars>>)
    \/ (TestPyFormat /\ UNCHANGED <<mrVars, fVars, env, wVars, rVars, dVars, rdVars>>)
    \/ RunSend
    \/ RunSkip
    \/ RunStageFail
    \/ (SwmStart /\ UNCHANGED <<fVars, sVars, env, rVars, dVars, rdVars>>)
    \/ (SwmAttempt /\ UNCHANGED <<fVars, sVars, env, rVars, dVars, rdVars>>)
    \/ (SwmBackoff /\ UNCHANGED <<fVars, sVars, env, rVars, dVars, rdVars>>)
    \/ (SwmFinish /\ UNCHANGED <<fVars, sVars, env, rVars, dVars, rdVars>>)
    \/ (WsSendMessage /\ UNCHANGED <<fVars, sVars, env, rVars, dVars, rdVars>>)
    \/ RunAfterSend
    \/ RunAfterNotify
    \/ RunAutomation

SpecRun == InitRun /\ [][NextRun]_vars

\* bound: the longest list get_detailed_packages is called on
MaxShipments == 81

\* one call of get_detailed_packages
InitDetail ==
    /\ MrIdle
    /\ FetchIdle
    /\ SummaryIdle
    /\ NoRun
    /\ RedisIdle
    /\ d_pc = "start"
    /\ d_input \in [packages : {Shipments(n) : n \in {0, 1, 39, 40, 41, 80, MaxShipments}},
                     bad_id : {0, 1, 41}]
    /\ d_i = 0
    /\ d_batches = << >>
    /\ d_http = << >>
    /\ d_detailed = << >>
    /\ d_error = ""

NextDetail ==
    \/ (GdpStart /\ UNCHANGED <<fVars, sVars, env, wVars, rVars, rdVars>>)
    \/ (GdpBatch /\ UNCHANGED <<fVars, sVars, env, wVars, rVars, rdVars>>)
    \/ (GdpAttempt /\ UNCHANGED <<fVars, sVars, env, wVars, rVars, rdVars>>)
    \/ (GdpBackoff /\ UNCHANGED <<fVars, sVars, env, wVars, rVars, rdVars>>)
    \/ (GdpProcess /\ UNCHANGED <<fVars, sVars, env, wVars, rVars, rdVars>>)

SpecDetail == InitDetail /\ [][NextDetail]_vars

\* bound: the list pages get_all_packages may request ahead of the detail stage
PipelinePages == 2

\* a list fetch by each implementation, followed by the detail stage where
\* the implementation has one
InitPipeline == InitFetch

NextPipeline ==
    \/ (GapRequest /\ f_page <= PipelinePages
           /\ UNCHANGED <<sVars, env, wVars, rVars, dVars, rdVars>>)
    \/ (GapAttempt /\ UNCHANGED <<sVars, env, wVars, rVars, dVars, rdVars>>)
    \/ (GapBackoff /\ UNCHANGED <<sVars, env, wVars, rVars, dVars, rdVars>>)
    \/ (GapProcess /\ UNCHANGED <<sVars, env, wVars, rVars, dVars, rdVars>>)
    \/ (TsIterate /\ UNCHANGED <<sVars, env, wVars, rVars, dVars, rdVars>>)
    \/ (PipeDetail /\ UNCHANGED <<sVars, env, wVars, rVars, rdVars>>)
    \/ (GdpStart /\ UNCHANGED <<fVars, sVars, env, wVars, rVars, rdVars>>)
    \/ (GdpBatch /\ UNCHANGED <<fVars, sVars, env, wVars, rVars, rdVars>>)
    \/ (GdpAttempt /\ UNCHANGED <<fVars, sVars, env, wVars, rVars, rdVars>>)
    \/ (GdpBackoff /\ UNCHANGED <<fVars, sVars, env, wVars, rVars, rdVars>>)
    \/ (GdpProcess /\ UNCHANGED <<fVars, sVars, env, wVars, rVars, rdVars>>)

SpecPipeline == InitPipeline /\ [][NextPipeline]_vars

\* the field names and the values of the hashes the scripts are tried on, as
\* stored bytes: 'a'; the UTF-8 of 'Ã©', which is 'é' encoded twice; the UTF-8
\* of 'é'; 'é' as one Latin-1 byte; the UTF-8 of 'ā', which Latin-1 lacks
NomeField == <<110, 111, 109, 101>>
CorField == <<99, 111, 114>>
AsciiValue == <<97>>
TwiceEncodedValue == <<195, 131, 194, 169>>
Utf8Value == <<195, 169>>
Latin1Value == <<233>>
WideValue == <<196, 129>>

HashPool ==
    {{[field |-> NomeField, value |-> v]} :
        v \in {AsciiValue, TwiceEncodedValue, Utf8Value, Latin1Value, WideValue}}
    \cup {{[field |-> NomeField, value |-> TwiceEncodedValue], [field |-> CorField, value |-> v]} :
            v \in {AsciiValue, Utf8Value}}

OneField(value) == {[field |-> NomeField, value |-> value]}

\* the stores a script is started on
StorePool ==
    {[key \in KeyPool |->
        IF key = ProdutoKey THEN produto
        ELSE IF key = CacheKey THEN cache
        ELSE IF key = ProdutoKeyLatin1 THEN latin1
        ELSE IF key = TrackingKey THEN tracking
        ELSE IF key = AiProcessedKey THEN ai
        ELSE IF key = ChatUndefinedKey THEN chat
        ELSE NoKey] :
     produto \in {NoKey} \cup {HashKey(h, t) : h \in HashPool, t \in {-1, 100}},
     cache \in {NoKey, HashKey(OneField(TwiceEncodedValue), -1),
                HashKey(OneField(Utf8Value), -1)},
     latin1 \in {NoKey, HashKey(OneField(AsciiValue), -1)},
     tracking \in {NoKey, StringKey(<<49>>, -1)},
     ai \in {NoKey, StringKey(<<49>>, -1), StringKey(<<49>>, 50)},
     chat \in {NoKey, StringKey(<<49>>, -1)}}

\* a repair script run on a store, MaxRuns times in a row
InitRedis ==
    /\ MrIdle
    /\ FetchIdle
    /\ SummaryIdle
    /\ NoRun
    /\ DetailIdle
    /\ rd_script \in {"fix_redis", "fix_ortopedic_encoding"}
    /\ rd_pc = "start"
    /\ rd_store \in StorePool
    /\ rd_todo = {}
    /\ rd_runs = 0
    /\ rd_before = rd_store
    /\ rd_first = rd_store
    /\ rd_failed = {}

NextRedis ==
    \/ (RdStart /\ UNCHANGED <<mrVars, fVars, sVars, env, wVars, rVars, dVars>>)
    \/ (RdFixKey /\ UNCHANGED <<mrVars, fVars, sVars, env, wVars, rVars, dVars>>)
    \/ (RdFixProduto /\ UNCHANGED <<mrVars, fVars, sVars, env, wVars, rVars, dVars>>)
    \/ (RdFinish /\ UNCHANGED <<mrVars, fVars, sVars, env, wVars, rVars, dVars>>)

SpecRedis == InitRedis /\ [][NextRedis]_vars

\* any of the above
Init ==
    \/ InitRetry \/ InitFetch \/ InitSummary \/ InitClassify \/ InitSend \/ InitRun
    \/ InitDetail \/ InitRedis
Next ==
    \/ NextRetry \/ NextFetch \/ NextSummary \/ NextSend \/ NextRun
    \/ NextDetail \/ NextRedis
Spec == Init /\ [][Next]_vars

----------------------------------------------------------------------------
\* Properties

\* the HTTP requests of a trace, in order
RequestsOf(trace) == SelectSeq(trace, LAMBDA e : e.kind = "request")

\* C1: a call of make_request issues the request at most 3 times; the first
\* attempt that succeeds ends the call, its response is returned and nothing is
\* raised; after 3 failed attempts the error of the third is raised; exactly one
\* 1-second sleep separates consecutive attempts and none follows the last.
C1_RetryContract ==
    LET reqs == RequestsOf(mr_trace)
        last == mr_trace[Len(mr_trace)]
    IN
    /\ Len(reqs) <= 3
    /\ \A i \in 1..Len(reqs) : reqs[i].attempt = i
    /\ \A i \in 1..(Len(reqs) - 1) : reqs[i].error # ""
    /\ \A i \in 1..Len(mr_trace) :
         /\ mr_trace[i].kind = "sleep" =>
              /\ mr_trace[i].seconds = 1
              /\ i > 1
              /\ mr_trace[i - 1].kind = "request"
         /\ (mr_trace[i].kind = "request" /\ i > 1) => mr_trace[i - 1].kind = "sleep"
    /\ mr_pc \in {"try", "sleep", "returned", "raised"}
    /\ mr_pc = "returned" =>
         /\ Len(mr_trace) > 0
         /\ last.kind = "request"
         /\ last.error = ""
         /\ mr_outcome = [status |-> "returned", attempt |-> Len(reqs), error |-> "",
                          resp |-> last.resp]
         /\ ~ENABLED NextRetry
    /\ mr_pc = "raised" =>
         /\ Len(reqs) = 3
         /\ last.kind = "request"
         /\ reqs[3].error # ""
         /\ mr_outcome = [status |-> "raised", attempt |-> 3, error |-> reqs[3].error,
                          resp |-> reqs[3].resp]
         /\ ~ENABLED NextRetry

\* two attempts failed with different errors and the third succeeded
C1_Witness ==
    /\ mr_pc = "returned"
    /\ Len(RequestsOf(mr_trace)) = 3
    /\ RequestsOf(mr_trace)[1].error # RequestsOf(mr_trace)[2].error
    /\ Len(mr_trace) = 5

\* a page response that is a well-formed envelope: code 0 and data.accepted
WellFormedPage(outcome) ==
    /\ outcome.status = "returned"
    /\ outcome.resp.ctype_json
    /\ outcome.resp.body.shape = "dict"
    /\ outcome.resp.body.code = "zero"
    /\ outcome.resp.body.data = "accepted"

\* C2: when the response for some page carries a non-zero code or lacks
\* data.accepted, the fetch raises; the records collected from the pages before
\* it are never returned as the result.
C2_NoPartialResult ==
    (f_pc = "returned" /\ Len(f_collected) > 0)
        => \A k \in 1..Len(f_responses) : WellFormedPage(f_responses[k])

\* the groups format_summary_message sorts a list into are all empty
NoGroup(packages) ==
    LET acc == FormatLoop(packages, 1, EmptyGroups) IN
    /\ ~acc.raised
    /\ Len(acc.taxas_pendentes) = 0
    /\ Len(acc.em_alerta) = 0
    /\ Len(acc.com_problemas) = 0

\* C3: format_summary_message returns the fixed 'no pending packages' text for
\* the empty list and for every list none of whose records falls into a group
\* (checked here on lists of records that all carry a track_info).
C3_NoPendingFixed ==
    (/\ s_impl = "automations"
     /\ s_pc = "formatted"
     /\ \A i \in 1..Len(s_pending) :
          s_pending[i].tag = "dict" /\ s_pending[i].track_info.tag = "dict"
     /\ NoGroup(s_pending))
        => s_message.text = NoPendingText

\* C4: format_summary_message never raises, whatever records the list holds.
C4_FormatNeverRaises ==
    s_impl = "automations" => s_pc # "format_raised"

\* the places of a text where a line starts
LineStarts(text) == {i \in 1..Len(text) : i = 1 \/ text[i - 1] = "\n"}

\* the lines of a message that carry a tracking number: "*number*..." in the
\* automation's message, the bare number in the python message
TrackingLines(impl, text, number) ==
    IF impl = "automations"
    THEN {i \in LineStarts(text) : MatchAt(text, <<"*">> \o number \o <<"*">>, i)}
    ELSE {i \in LineStarts(text) :
            /\ MatchAt(text, number, i)
            /\ (i + Len(number) = Len(text) + 1 \/ text[i + Len(number)] = "\n")}

\* C6: the message built by the job has exactly one tracking-number line for
\* each record the classifier marked pending and none for the others.
C6_OneLinePerPending ==
    (s_pc = "formatted" /\ Len(s_verdicts) = Len(s_detailed))
        => \A i \in 1..Len(s_detailed) :
             Cardinality(TrackingLines(s_impl, s_message.text, NumberFor(i).s))
                 = IF s_verdicts[i].ret THEN 1 ELSE 0

\* the status and the description of a record, as each classifier reads them
StatusOf(impl, r) ==
    IF impl = "automations" THEN StatusField(r.track_info) ELSE r.package_status
DescriptionOf(impl, r) ==
    IF impl = "automations" THEN DescriptionField(r.track_info) ELSE r.latest_event_info

\* a record that is a dict and, for the automation, carries a track_info dict
HasFields(impl, r) ==
    /\ r.tag = "dict"
    /\ impl = "automations" => r.track_info.tag = "dict"

Absent(field) == field.tag \in {"missing", "null"}
TextOrAbsent(field) == field.tag \in {"str", "missing", "null"}

\* the record with its absent status and description set to ''
Blanked(impl, r) ==
    LET st == IF Absent(StatusOf(impl, r)) THEN Str(<< >>) ELSE StatusOf(impl, r)
        d == IF Absent(DescriptionOf(impl, r)) THEN Str(<< >>)
             ELSE DescriptionOf(impl, r)
    IN IF impl = "automations"
       THEN Package(r.number,
                    TrackInfo("dict", LatestEvent("dict", d), LatestStatus("dict", st)))
       ELSE Item(r.number, st, d)

\* the classifier of an implementation, called on a record
Classifier(impl, r) ==
    IF impl = "automations" THEN check_taxation(r) ELSE ts_check_taxation(r)

\* C5: on a record whose status or event description is missing or null, the
\* classifier does not raise and answers as it does for the same record with
\* the field set to ''.
C5_MissingAsEmpty ==
    \A i \in 1..Len(s_verdicts) :
        LET r == s_detailed[i] IN
        (/\ HasFields(s_impl, r)
         /\ TextOrAbsent(StatusOf(s_impl, r))
         /\ TextOrAbsent(DescriptionOf(s_impl, r))
         /\ (Absent(StatusOf(s_impl, r)) \/ Absent(DescriptionOf(s_impl, r))))
            => /\ ~s_verdicts[i].raised
               /\ s_verdicts[i] = Classifier(s_impl, Blanked(s_impl, r))

\* a record with a null status and a keyword in its event was classified pending
C5_Witness ==
    /\ Len(s_verdicts) = 1
    /\ HasFields(s_impl, s_detailed[1])
    /\ StatusOf(s_impl, s_detailed[1]).tag = "null"
    /\ DescriptionOf(s_impl, s_detailed[1]).tag = "str"
    /\ s_verdicts[1].ret

\* the keywords the specification lists
SpecKeywords ==
    {<<"c","u","s","t","o","m","s">>,
     <<"t","a","x">>,
     <<"c","l","e","a","r","a","n","c","e">>,
     <<"a","l","f","â","n","d","e","g","a">>,
     <<"t","a","x","a">>,
     <<"i","m","p","o","s","t","o">>,
     <<"t","r","i","b","u","t","a","ç","ã","o">>,
     <<"d","e","s","e","m","b","a","r","a","ç","o">>,
     <<"d","e","c","l","a","r","a","ç","ã","o">>,
     <<"f","i","s","c","a","l","i","z","a","ç","ã","o">>,
     <<"a","u","t","o","r","i","d","a","d","e"," ","c","o","m","p","e","t","e","n","t","e">>}

\* the problem statuses the specification lists, lowered
SpecProblemStatuses ==
    {<<"a","l","e","r","t">>,
     <<"e","x","p","i","r","e","d">>,
     <<"u","n","d","e","l","i","v","e","r","e","d">>,
     <<"c","u","s","t","o","m","s","h","o","l","d">>,
     <<"i","n","t","r","a","n","s","i","t","_","c","u","s","t","o","m","s","p","r","o","c",
       "e","s","s","i","n","g">>,
     <<"e","x","c","e","p","t","i","o","n","_","s","e","c","u","r","i","t","y">>,
     <<"d","e","l","i","v","e","r","y","f","a","i","l","u","r","e","_","s","e","c","u","r",
       "i","t","y">>}

\* the generic problem statuses, lowered
SpecGenericStatuses ==
    {<<"a","l","e","r","t">>,
     <<"e","x","p","i","r","e","d">>,
     <<"u","n","d","e","l","i","v","e","r","e","d">>}

\* the provider customs codes, as spelled
SpecCustomsCodes ==
    {<<"C","u","s","t","o","m","s","H","o","l","d">>,
     <<"I","n","T","r","a","n","s","i","t","_","C","u","s","t","o","m","s","P","r","o","c",
       "e","s","s","i","n","g">>,
     <<"E","x","c","e","p","t","i","o","n","_","S","e","c","u","r","i","t","y">>,
     <<"D","e","l","i","v","e","r","y","F","a","i","l","u","r","e","_","S","e","c","u","r",
       "i","t","y">>}

\* the keywords of the automation classifier
SpecAutomationKeywords ==
    {<<"c","u","s","t","o","m","s">>,
     <<"t","a","x","a">>,
     <<"i","m","p","o","s","t","o">>,
     <<"t","r","i","b","u","t","a","ç","ã","o">>,
     <<"a","l","f","â","n","d","e","g","a">>,
     <<"f","i","s","c","a","l","i","z","a","ç","ã","o">>,
     <<"a","u","t","o","r","i","d","a","d","e"," ","c","o","m","p","e","t","e","n","t","e">>}

\* the keywords of the TrackingService classifier
SpecPythonKeywords ==
    {<<"c","u","s","t","o","m","s">>,
     <<"t","a","x">>,
     <<"c","l","e","a","r","a","n","c","e">>,
     <<"a","l","f","â","n","d","e","g","a">>,
     <<"t","a","x","a">>,
     <<"i","m","p","o","s","t","o">>,
     <<"t","r","i","b","u","t","a","ç","ã","o">>,
     <<"d","e","s","e","m","b","a","r","a","ç","o">>,
     <<"d","e","c","l","a","r","a","ç","ã","o">>}

\* C7 as stated: a record whose status is, case-insensitively, one of the seven
\* problem statuses is classified pending by both classifiers, whatever its
\* event description.
C7_UnionStatuses ==
    \A i \in 1..Len(s_verdicts) :
        LET r == s_detailed[i] IN
        (/\ HasFields(s_impl, r)
         /\ StatusOf(s_impl, r).tag = "str"
         /\ Lower(StatusOf(s_impl, r).s) \in SpecProblemStatuses
         /\ TextOrAbsent(DescriptionOf(s_impl, r)))
            => (~s_verdicts[i].raised /\ s_verdicts[i].ret)

\* C7 amended: check_taxation classifies as pending every record whose status
\* is, case-insensitively, alert, expired or undelivered; _check_taxation every
\* record whose status is spelled exactly as one of the four customs codes;
\* whatever the event description (a string, null or absent).
C7_OwnStatuses ==
    \A i \in 1..Len(s_verdicts) :
        LET r == s_detailed[i] IN
        (/\ HasFields(s_impl, r)
         /\ StatusOf(s_impl, r).tag = "str"
         /\ TextOrAbsent(DescriptionOf(s_impl, r))
         /\ IF s_impl = "automations"
            THEN Lower(StatusOf(s_impl, r).s) \in SpecGenericStatuses
            ELSE StatusOf(s_impl, r).s \in SpecCustomsCodes)
            => (~s_verdicts[i].raised /\ s_verdicts[i].ret)

\* an undelivered record with a benign event was classified pending
C7_Witness ==
    /\ s_impl = "automations"
    /\ Len(s_verdicts) = 1
    /\ StatusOf(s_impl, s_detailed[1]) = Str(<<"u","n","d","e","l","i","v","e","r","e","d">>)
    /\ DescriptionOf(s_impl, s_detailed[1]) = Str(<<"D","e","l","i","v","e","r","e","d">>)
    /\ s_verdicts[1].ret

\* the description holds one of the keywords, case-insensitively
MentionsAny(description, keywords) ==
    /\ description.tag = "str"
    /\ \E kw \in keywords : Contains(Lower(description.s), kw)

\* the status is none of the seven problem statuses
NotProblemStatus(status) ==
    \/ Absent(status)
    \/ (status.tag = "str" /\ Lower(status.s) \notin SpecProblemStatuses)

\* C8 as stated: a record whose status is no problem status and whose event
\* description holds any of the eleven keywords is classified pending by both
\* classifiers.
C8_UnionKeywords ==
    \A i \in 1..Len(s_verdicts) :
        LET r == s_detailed[i] IN
        (/\ HasFields(s_impl, r)
         /\ NotProblemStatus(StatusOf(s_impl, r))
         /\ MentionsAny(DescriptionOf(s_impl, r), SpecKeywords))
            => (~s_verdicts[i].raised /\ s_verdicts[i].ret)

\* C8 amended: each classifier classifies as pending every record whose status
\* is no problem status and whose event description holds, case-insensitively,
\* a keyword of the classifier's own list.
C8_OwnKeywords ==
    \A i \in 1..Len(s_verdicts) :
        LET r == s_detailed[i] IN
        (/\ HasFields(s_impl, r)
         /\ NotProblemStatus(StatusOf(s_impl, r))
         /\ MentionsAny(DescriptionOf(s_impl, r),
                        IF s_impl = "automations" THEN SpecAutomationKeywords
                        ELSE SpecPythonKeywords))
            => (~s_verdicts[i].raised /\ s_verdicts[i].ret)

\* a delivered record whose event names the customs office in capitals was
\* classified pending
C8_Witness ==
    /\ s_impl = "automations"
    /\ Len(s_verdicts) = 1
    /\ StatusOf(s_impl, s_detailed[1]) = Str(<<"D","e","l","i","v","e","r","e","d">>)
    /\ DescriptionOf(s_impl, s_detailed[1])
         = Str(<<"T","A","X","A"," ","p","e","n","d","e","n","t","e">>)
    /\ s_verdicts[1].ret

\* the pages a fetch has been handed a response for
PagesFetched == Len(f_responses)

\* the records a page response carries
PageCount(outcome) ==
    IF WellFormedPage(outcome) THEN outcome.resp.body.n ELSE 0

\* the provider reports a total of at least one record and a page size of at
\* least one
ReportsTotal ==
    /\ f_provider.page.present
    /\ f_provider.page.data_total >= 1
    /\ f_provider.page.page_size >= 1

ReportedPages == CeilDiv(f_provider.page.data_total, f_provider.page.page_size)

\* the last page response is one the loop rejects: a malformed envelope, or a
\* page holding the record without a number
LastPageRejected ==
    /\ PagesFetched > 0
    /\ \/ ~WellFormedPage(f_responses[PagesFetched])
       \/ f_provider.bad_id \in
            (f_served + 1)..(f_served + PageCount(f_responses[PagesFetched]))

\* C9: when the first list response reports data_total = T >= 1 and
\* page_size = S >= 1, the two TrackingService fetchers request the pages
\* 1, 2, ... in order, never more than ceil(T/S) of them, and return after
\* exactly ceil(T/S) requests (3 for T = 85, S = 40); a fetch ends earlier only
\* by raising on a page it rejects.
C9_PagesByTotal ==
    (f_impl \in TsImpls /\ ReportsTotal) =>
        /\ f_requests = [i \in 1..Len(f_requests) |-> i]
        /\ Len(f_requests) <= ReportedPages
        /\ f_pc \in {"loop", "returned", "raised"}
        /\ f_pc = "loop" => (Len(f_requests) < ReportedPages /\ ENABLED TsIterate)
        /\ f_pc = "returned" =>
             (Len(f_requests) = ReportedPages /\ ~ENABLED NextFetch)
        /\ (/\ f_pc = "returned"
            /\ f_provider.page.data_total = 85
            /\ f_provider.page.page_size = 40) => f_requests = <<1, 2, 3>>
        /\ f_pc = "raised" => (LastPageRejected /\ ~ENABLED NextFetch)

\* 85 records in pages of 40: the fetch returned after its third request
C9_Witness ==
    /\ f_impl \in TsImpls
    /\ f_pc = "returned"
    /\ f_provider.page = Page(85, 40)
    /\ f_requests = <<1, 2, 3>>

\* every page before the last held at least 40 records and the last fewer
StoppedAtShortPage ==
    /\ PagesFetched >= 1
    /\ \A k \in 1..(PagesFetched - 1) : PageCount(f_responses[k]) >= 40
    /\ PageCount(f_responses[PagesFetched]) < 40

\* C10 as stated: every fetcher stops after ceil(total/page_size) pages when
\* the first response reports a total, and otherwise goes on while the page
\* received holds 40 records, stopping at the first shorter page.
C10_TotalThenSize ==
    f_pc = "returned" =>
        /\ ReportsTotal => PagesFetched = ReportedPages
        /\ ~f_provider.page.present => StoppedAtShortPage

\* C10 amended: the TrackingService fetchers stop after ceil(total/page_size)
\* pages, and at least one, when the first response reports a total, and after
\* one page when it reports none, whatever the pages hold; get_all_packages
\* never reads the total: it goes on while the page received holds at least 40
\* records and stops at the first shorter page.
C10_EachStrategy ==
    /\ (f_impl \in TsImpls /\ f_pc = "returned") =>
         PagesFetched = IF f_provider.page.present /\ f_provider.page.data_total >= 1
                        THEN ReportedPages
                        ELSE 1
    /\ (f_impl \in TsImpls /\ f_pc = "loop" /\ PagesFetched > 0) =>
         (f_provider.page.present /\ PagesFetched < ReportedPages)
    /\ (f_impl = "get_all_packages" /\ f_pc = "returned") => StoppedAtShortPage
    /\ (f_impl = "get_all_packages" /\ f_pc \in {"loop", "await"}) =>
         \A k \in 1..PagesFetched : PageCount(f_responses[k]) >= 40

\* a provider reporting 80 records in pages of 40 served two full pages and an
\* empty one: get_all_packages returned after three pages, not two
C10_Witness ==
    /\ f_impl = "get_all_packages"
    /\ f_pc = "returned"
    /\ f_provider.page = Page(80, 40)
    /\ PagesFetched = 3
    /\ Len(f_collected) = 80

----------------------------------------------------------------------------
\* The daily-summary run

\* how many sends of one kind the run has finished
SendsOf(kind) == Cardinality({i \in 1..Len(r_events) : r_events[i].kind = kind})

\* generate_daily_summary was entered and ended with an exception
JobRaised == r_pc = "ended" /\ r_entry \in JobEntries /\ r_result.job = "raised"

\* C11: a run whose fetch, classify, format or send stage ends in an
\* unrecovered error attempts the generic failure message exactly once before
\* it ends (every setting being present).
C11_FailureNotifiedOnce ==
    env = EnvAllSet =>
        /\ SendsOf("failure") <= 1
        /\ JobRaised => SendsOf("failure") = 1

\* C12: a run that entered the error-notification path ends by returning to
\* its caller without an exception, whether or not the failure message could
\* be sent (every setting being present).
C12_NotifyThenReturn ==
    (env = EnvAllSet /\ r_pc = "ended" /\ SendsOf("failure") > 0)
        => r_result.job = "returned"

\* C13: a run whose fetch, classify and format stages complete without error
\* issues exactly one summary send, also when no shipment is pending; no run
\* ends in success without having passed through the send stage (every setting
\* being present).
C13_OneSummarySend ==
    (/\ env = EnvAllSet
     /\ r_pc = "ended"
     /\ r_entry \in JobEntries
     /\ r_result.job = "returned"
     /\ SendsOf("failure") = 0)
        => SendsOf("summary") = 1

----------------------------------------------------------------------------
\* The gateway send

\* the answer to the last POST of the send
LastAnswer == w_posts[Len(w_posts)].resp

\* a well-formed JSON answer
WellFormed(resp) == resp.transport_ok /\ resp.ctype_json /\ resp.body.shape = "dict"

\* the gateway rejected the message: a well-formed answer whose error is true
Rejection(resp) == WellFormed(resp) /\ resp.body.error = "true"

\* the send told its caller that the message went out
ReportedSuccess == w_result.status = "returned" /\ w_result.ret # "False"

\* C14: a send is reported as successful if and only if the gateway's JSON
\* answer has its error field explicitly false; error true, error null and no
\* error field are reported as failures.
C14_SuccessIffErrorFalse ==
    (w_pc = "done" /\ Len(w_posts) > 0 /\ WellFormed(LastAnswer))
        => (ReportedSuccess <=> LastAnswer.body.error = "false")

\* C15: when the gateway rejects the message the sender returns a boolean
\* failure and raises nothing.
C15_RejectionIsFalse ==
    (w_pc = "done" /\ Len(w_posts) > 0 /\ Rejection(LastAnswer))
        => (w_result.status = "returned" /\ w_result.ret = "False")

\* C16: once the gateway has answered with a rejection no further POST is
\* issued for that message.
C16_NoRetryAfterRejection ==
    \A i \in 1..(Len(w_posts) - 1) : ~Rejection(w_posts[i].resp)

\* the digit characters of a text, in order
DigitsIn(text) ==
    SelectSeq(text, LAMBDA c : c \in {"0","1","2","3","4","5","6","7","8","9"})

\* the destination the claim gives for a configured number
Destination(number) ==
    IF Len(DigitsIn(number)) >= 2 /\ SubSeq(DigitsIn(number), 1, 2) = <<"5","5">>
    THEN DigitsIn(number)
    ELSE <<"5","5">> \o DigitsIn(number)

ExampleDestination == <<"5","5","1","1","9","9","9","9","9","8","8","8","8">>

\* C17: send_whatsapp_message posts to the digits of the configured number,
\* with 55 in front unless the digits start with 55; '(55) 11 99999-8888' and
\* '11999998888' both give '5511999998888'; a number without a digit ends in a
\* ValueError and no POST is issued.
C17_PhoneNormalized ==
    (w_impl = "send_whatsapp_message" /\ env.TECHNICAL_DEPT_NUMBER.tag = "str") =>
      LET number == env.TECHNICAL_DEPT_NUMBER.s IN
      /\ \A i \in 1..Len(w_posts) : w_posts[i].phoneNumber = Destination(number)
      /\ Len(DigitsIn(number)) = 0 =>
           /\ Len(w_posts) = 0
           /\ w_pc = "done" => (w_result.status = "raised" /\ mr_trace = << >>)
           /\ w_pc # "await"
      /\ (/\ Len(w_posts) > 0
          /\ number \in {<<"(","5","5",")"," ","1","1"," ","9","9","9","9","9","-","8","8","8","8">>,
                         <<"1","1","9","9","9","9","9","8","8","8","8">>})
           => w_posts[1].phoneNumber = ExampleDestination

\* a number written with punctuation and its country code was posted to as
\* its thirteen digits
C17_Witness ==
    /\ w_impl = "send_whatsapp_message"
    /\ w_pc = "done"
    /\ env.TECHNICAL_DEPT_NUMBER.s =
         <<"(","5","5",")"," ","1","1"," ","9","9","9","9","9","-","8","8","8","8">>
    /\ Len(w_posts) > 0
    /\ w_posts[1].phoneNumber = ExampleDestination

----------------------------------------------------------------------------
\* Configuration and exit status

\* the settings the automation needs: the tracking API, the gateway, the number
RequiredSettings ==
    {"TRACK17_API_URL", "TRACK17_API_KEY", "WAPI_URL", "WAPI_TOKEN",
     "WAPI_CONNECTION_KEY", "TECHNICAL_DEPT_NUMBER"}

\* no HTTP request has gone out, to the tracking provider or to the gateway
NoRequestIssued ==
    /\ \A i \in 1..Len(r_events) :
         r_events[i].kind # "tracking_request" /\ r_events[i].posts = 0
    /\ Len(w_posts) = 0

\* C18: when a required setting is absent or empty the automation fails with a
\* configuration error before any HTTP request to the tracking provider or the
\* gateway is issued; a missing gateway setting is detected before the fetch.
C18_FailFast ==
    (/\ r_impl = "automations"
     /\ \E k \in RequiredSettings : ~Truthy(env[k]))
        => /\ NoRequestIssued
           /\ r_pc = "ended" => r_result.job = "not_started"

\* the run went through without an error: the job returned, no stage or send
\* raised, and the failure message was not needed
RunSucceeded ==
    /\ r_result.job = "returned"
    /\ SendsOf("failure") = 0
    /\ \A i \in 1..Len(r_events) : r_events[i].status # "raised"

\* C19: a standalone entry point (run_automation.py, test_automation.py,
\* python/test.py) ends with exit status 0 if and only if its run succeeded.
C19_ExitStatus ==
    (r_pc = "ended" /\ r_entry \in {"run_automation", "run_test", "test_daily_summary"})
        => (r_result.exit = "zero" <=> RunSucceeded)

----------------------------------------------------------------------------
\* The returning-to-sender rule of the formatter

\* the record's event text, once translated, holds the returning phrase
Returning(pkg) ==
    /\ pkg.tag = "dict"
    /\ pkg.number.tag = "str"
    /\ TruthyTrackInfo(pkg.track_info)
    /\ DescriptionField(pkg.track_info).tag = "str"
    /\ Contains(Lower(translate_event(DescriptionField(pkg.track_info).s)), ReturningText)

\* the line at place l of the message stands below the problem header
InProblemBlock(text, l) == \E h \in 1..l : MatchAt(text, ProblemasHeaderText, h)

\* C20: format_summary_message puts every record whose translated event text
\* holds 'retornando ao remetente' in the problem group and in no other group,
\* whatever its status and even when the text also holds a customs keyword.
C20_ReturningIsProblem ==
    (s_impl = "automations" /\ s_pc = "formatted") =>
        \A i \in 1..Len(s_pending) :
            Returning(s_pending[i]) =>
                LET number == s_pending[i].number.s
                    lines == TrackingLines("automations", s_message.text, number)
                IN
                /\ Cardinality(lines) = 1
                /\ \A l \in lines :
                     /\ InProblemBlock(s_message.text, l)
                     /\ MatchAt(s_message.text, <<"*">> \o number \o <<"*", ":", " ">>, l)

\* a record in alert whose text holds both the returning phrase and a customs
\* keyword was formatted
C20_Witness ==
    /\ s_impl = "automations"
    /\ s_pc = "formatted"
    /\ \E i \in 1..Len(s_pending) :
         /\ Returning(s_pending[i])
         /\ StatusField(s_pending[i].track_info) = Str(AlertText)
         /\ AnyKeywordIn(cs_customs_keywords,
                Lower(translate_event(DescriptionField(s_pending[i].track_info).s)))

----------------------------------------------------------------------------
\* The order of the status rule and the keyword rule in the formatter

BlockHeaders == {TaxasHeaderText, AlertaHeaderText, ProblemasHeaderText}

\* the places of a message where a block header starts
HeaderStarts(text) ==
    {h \in 1..Len(text) : \E hd \in BlockHeaders : MatchAt(text, hd, h)}

\* the header of the block the line at place l stands in, << >> above the
\* first block
BlockOf(text, l) ==
    LET hs == {h \in HeaderStarts(text) : h <= l} IN
    IF hs = {} THEN << >>
    ELSE LET last == CHOOSE h \in hs : \A g \in hs : g <= h
         IN CHOOSE hd \in BlockHeaders : MatchAt(text, hd, last)

\* the record's status is one the status rule names, and its text does not
\* hold the returning phrase
StatusRuled(pkg) ==
    /\ pkg.tag = "dict"
    /\ pkg.number.tag = "str"
    /\ TruthyTrackInfo(pkg.track_info)
    /\ DescriptionField(pkg.track_info).tag = "str"
    /\ StatusField(pkg.track_info).tag = "str"
    /\ LET status == Lower(StatusField(pkg.track_info).s) IN
       status = AlertText \/ InList(status, OtherProblemStatus)
    /\ ~Returning(pkg)

\* the block the status rule gives the record
StatusBlock(pkg) ==
    IF Lower(StatusField(pkg.track_info).s) = AlertText
    THEN AlertaHeaderText
    ELSE ProblemasHeaderText

\* the record's translated event text holds a customs keyword
KeywordInEvent(pkg) ==
    AnyKeywordIn(cs_customs_keywords,
        Lower(translate_event(DescriptionField(pkg.track_info).s)))

\* C21: when format_summary_message groups a record, the status rule comes
\* before the keyword rule: a record in alert is listed in the alert block and
\* an expired or undelivered record in the problem block, even when its event
\* text holds a customs keyword.
C21_StatusBeforeKeyword ==
    (s_impl = "automations" /\ s_pc = "formatted") =>
        \A i \in 1..Len(s_pending) :
            StatusRuled(s_pending[i]) =>
                LET lines == TrackingLines("automations", s_message.text,
                                           s_pending[i].number.s)
                IN
                /\ Cardinality(lines) = 1
                /\ \A l \in lines : BlockOf(s_message.text, l) = StatusBlock(s_pending[i])

----------------------------------------------------------------------------
\* The representative status line of the customs-pending block

\* the places of a message where a status line starts
StatusLines(text) == {i \in 1..Len(text) : MatchAt(text, StatusPrefixText, i)}

\* the records of a list the formatter lists as customs-pending
CustomsPending(pending) ==
    {i \in 1..Len(pending) :
        /\ pending[i].tag = "dict"
        /\ TruthyTrackInfo(pending[i].track_info)
        /\ DescriptionField(pending[i].track_info).tag = "str"
        /\ KeywordInEvent(pending[i])
        /\ ~Contains(Lower(translate_event(DescriptionField(pending[i].track_info).s)),
                     ReturningText)}

\* the first customs-pending record of a list
IsFirstCustoms(pending, i) ==
    i \in CustomsPending(pending) /\ \A j \in CustomsPending(pending) : i <= j

\* the record's translated event text
EventOf(pkg) == translate_event(DescriptionField(pkg.track_info).s)

\* the text is over, or a block header starts, at place i
BlockEndsAt(text, i) == i = Len(text) + 1 \/ i \in HeaderStarts(text)

\* C22: the message has at most one status line; it stands in the
\* customs-pending block, after the block's last tracking line, and its text
\* is the translated event of the first customs-pending record of the input:
\* a later customs-pending record never replaces it.
C22_StatusLineOnceFromFirst ==
    (s_impl = "automations" /\ s_pc = "formatted") =>
        LET text == s_message.text
            marks == StatusLines(text)
            cps == CustomsPending(s_pending)
        IN
        /\ Cardinality(marks) <= 1
        /\ marks # {} => cps # {}
        /\ \A m \in marks :
             /\ BlockOf(text, m) = TaxasHeaderText
             /\ \A i \in cps :
                  /\ IsFirstCustoms(s_pending, i) =>
                       LET line == StatusPrefixText \o EventOf(s_pending[i]) \o <<"_">> IN
                       /\ MatchAt(text, line, m)
                       /\ BlockEndsAt(text, m + Len(line))
                  /\ \A l \in TrackingLines("automations", text,
                                            NumberText(s_pending[i].number)) : l < m

\* a message was built from two customs-pending records with different event
\* texts, and it has a status line
C22_Witness ==
    /\ s_impl = "automations"
    /\ s_pc = "formatted"
    /\ StatusLines(s_message.text) # {}
    /\ \E i, j \in CustomsPending(s_pending) :
         /\ i < j
         /\ EventOf(s_pending[i]) # EventOf(s_pending[j])

----------------------------------------------------------------------------
\* The order of the blocks of the message

\* the place of a block in the message: customs-pending, alert, problem
BlockRank(hd) ==
    IF hd = TaxasHeaderText THEN 1
    ELSE IF hd = AlertaHeaderText THEN 2
    ELSE 3

\* the header that starts at place h
HeaderAt(text, h) == CHOOSE hd \in BlockHeaders : MatchAt(text, hd, h)

\* the only line of the i-th record in the message
LinesOf(text, pending, i) ==
    IF pending[i].tag = "dict" /\ pending[i].number.tag = "str"
    THEN TrackingLines("automations", text, pending[i].number.s)
    ELSE {}

\* C26: the blocks of the message stand in the order customs-pending, alert,
\* problem, each at most once; a block is there only with at least one
\* tracking line under its header; inside a block the lines keep the order of
\* the input list.
C26_BlockOrder ==
    (s_impl = "automations" /\ s_pc = "formatted") =>
        LET text == s_message.text IN
        /\ \A g, h \in HeaderStarts(text) :
             g < h => BlockRank(HeaderAt(text, g)) < BlockRank(HeaderAt(text, h))
        /\ \A h \in HeaderStarts(text) :
             LET first == h + Len(HeaderAt(text, h)) IN
             /\ first \in LineStarts(text)
             /\ first <= Len(text)
             /\ text[first] = "*"
             /\ \E i \in 1..Len(s_pending) : first \in LinesOf(text, s_pending, i)
        /\ \A i, j \in 1..Len(s_pending) :
             i < j =>
               \A li \in LinesOf(text, s_pending, i), lj \in LinesOf(text, s_pending, j) :
                  BlockOf(text, li) = BlockOf(text, lj) => li < lj

\* a message with an alert block and a problem block
C26_Witness ==
    /\ s_impl = "automations"
    /\ s_pc = "formatted"
    /\ \E g, h \in HeaderStarts(s_message.text) :
         /\ HeaderAt(s_message.text, g) = AlertaHeaderText
         /\ HeaderAt(s_message.text, h) = ProblemasHeaderText

----------------------------------------------------------------------------
\* The delay after a successful send

\* C25: a send that reports success has slept its fixed post-send delay after
\* the gateway's answer and before returning, in WhatsAppService.send_message
\* and in CustomsSummary.send_whatsapp_message alike.
C25_DelayAfterSuccess ==
    (/\ w_pc = "done"
     /\ ReportedSuccess
     /\ Len(w_posts) > 0
     /\ WellFormed(LastAnswer)
     /\ LastAnswer.body.error = "false") => w_result.slept > 0

\* the same for WhatsAppService.send_message alone
C25_SendMessageDelay ==
    (w_impl = "send_message" /\ w_pc = "done" /\ ReportedSuccess)
        => w_result.slept = post_send_delay

----------------------------------------------------------------------------
\* Answers of the gateway that are not JSON

\* C27: send_whatsapp_message returns without an error only when the last
\* answer of the gateway was a JSON object without an error; an answer that is
\* not JSON, an empty body included, is never taken for a success.
C27_NonJsonNeverSuccess ==
    (w_impl = "send_whatsapp_message" /\ w_pc = "done" /\ w_result.status = "returned")
        => /\ Len(w_posts) > 0
           /\ WellFormed(LastAnswer)
           /\ LastAnswer.body.error # "true"

----------------------------------------------------------------------------
\* A list fetch against a consistent provider

\* the records on page k of a provider that holds n records
ConsistentCount(n, k) ==
    LET rest == n - page_size_40 * (k - 1) IN
    IF rest >= page_size_40 THEN page_size_40
    ELSE IF rest > 0 THEN rest
    ELSE 0

\* the answer of that provider to a request for page k
ConsistentAnswer(n, k) ==
    JsonResponse(Body("dict", "missing", "zero", "accepted", ConsistentCount(n, k),
                      Page(n, page_size_40)))

\* so far the provider held n well-formed records and answered every request
\* for page k with page k of them, at the first attempt
ConsistentRun(n) ==
    /\ f_provider = [page |-> Page(n, page_size_40), bad_id |-> 0]
    /\ \A k \in 1..Len(f_responses) :
         /\ f_responses[k].status = "returned"
         /\ f_responses[k].attempt = 1
         /\ f_responses[k].resp = ConsistentAnswer(n, k)
    /\ \A e \in 1..Len(mr_trace) :
         /\ mr_trace[e].kind = "request"
         /\ mr_trace[e].resp = ConsistentAnswer(n, Len(f_responses) + 1)

\* C30: against a provider that holds N records and serves them consistently
\* in pages of 40 with data_total = N, a list fetcher asks for the pages
\* 1, 2, ... in order, never raises, stops after at most N div 40 + 1 requests
\* and, when it returns, has handed each of the N records on exactly once, in
\* order; so for N = 0 and for the multiples of 40.
C30_ConsistentProvider ==
    \A n \in {0, 1, 40, 41, 80, 120} :
        (f_impl # "none" /\ ConsistentRun(n)) =>
            /\ f_pc # "raised"
            /\ f_requests = [k \in 1..Len(f_requests) |-> k]
            /\ Len(f_requests) <= n \div page_size_40 + 1
            /\ f_pc = "returned" =>
                 /\ f_served = n
                 /\ f_collected = IF f_impl = "get_all_packages"
                                  THEN Shipments(n)
                                  ELSE TsKept(f_impl, Shipments(n), 0)

\* get_all_packages returned from a provider holding 80 records, after two
\* full pages and an empty one
C30_Witness ==
    /\ f_impl = "get_all_packages"
    /\ f_pc = "returned"
    /\ ConsistentRun(80)
    /\ Len(f_requests) = 3

----------------------------------------------------------------------------
\* The detail requests of get_detailed_packages

\* the entries of a sequence of requests, one after the other
RECURSIVE EntriesOf(_)
EntriesOf(requests) ==
    IF Len(requests) = 0 THEN << >>
    ELSE requests[1].entries \o EntriesOf(Tail(requests))

\* C23 as stated: a call on n shipments that returns has issued exactly
\* ceil(n/40) detail requests, of 1 to 40 entries each, which together carry
\* every input shipment exactly once, in input order.
C23_ExactlyCeilRequests ==
    d_pc = "returned" =>
        /\ Len(d_http) = CeilDiv(Len(d_input.packages), batch_size)
        /\ \A r \in 1..Len(d_http) :
             Len(d_http[r].entries) >= 1 /\ Len(d_http[r].entries) <= batch_size
        /\ EntriesOf(d_http) = d_input.packages

\* the k-th group of 40 of a list
GroupOfForty(packages, k) ==
    [j \in 1..Least(batch_size, Len(packages) - batch_size * (k - 1)) |->
        packages[batch_size * (k - 1) + j]]

\* C23, amended: get_detailed_packages calls make_request once per batch; the
\* k-th batch is the k-th group of 40 of the input, so it has 1 to 40 entries
\* and the batches carry the input in order, each shipment once; every HTTP
\* request carries the entries of its batch, and a batch is requested again
\* only by make_request's retries, at most 3 times in all; a call that returns
\* has made exactly ceil(n/40) calls; for n = 0 it returns the empty list
\* without a request.
C23_BatchesOfForty ==
    LET packages == d_input.packages
        n == Len(packages)
    IN
    /\ \A k \in 1..Len(d_batches) :
         /\ d_batches[k] = GroupOfForty(packages, k)
         /\ Len(d_batches[k]) >= 1
         /\ Len(d_batches[k]) <= batch_size
    /\ \A r \in 1..Len(d_http) :
         /\ d_http[r].batch \in 1..Len(d_batches)
         /\ d_http[r].entries = d_batches[d_http[r].batch]
         /\ r > 1 => d_http[r].batch \in {d_http[r - 1].batch, d_http[r - 1].batch + 1}
         /\ r = 1 => d_http[r].batch = 1
    /\ \A k \in 1..Len(d_batches) :
         Cardinality({r \in 1..Len(d_http) : d_http[r].batch = k}) <= max_retries
    /\ d_pc = "returned" =>
         /\ Len(d_batches) = CeilDiv(n, batch_size)
         /\ \A k \in 1..Len(d_batches) : \E r \in 1..Len(d_http) : d_http[r].batch = k
    /\ n = 0 =>
         /\ d_pc \in {"start", "returned"}
         /\ d_http = << >>
         /\ d_detailed = << >>

\* a call on 81 shipments returned after three batches, one of them retried
C23_Witness ==
    /\ d_pc = "returned"
    /\ Len(d_batches) = 3
    /\ Len(d_http) > 3

----------------------------------------------------------------------------
\* The order of the requests of a fetch

\* the page_no of the last list request issued, 0 before the first
LastPageRequested == IF Len(f_requests) = 0 THEN 0 ELSE f_requests[Len(f_requests)]

\* C24: the list pages are requested one at a time, page_no going up from 1
\* without a gap, a page_no repeated only by a retry of get_all_packages's
\* make_request; page k + 1 is requested only after the answers to the pages
\* 1..k were processed; and no detail request is issued before the last list
\* page was received and the list fetch returned.
C24_SequentialRequests ==
    /\ Len(f_requests) > 0 => f_requests[1] = 1
    /\ \A k \in 2..Len(f_requests) :
         \/ f_requests[k] = f_requests[k - 1] + 1
         \/ f_impl = "get_all_packages" /\ f_requests[k] = f_requests[k - 1]
    /\ LastPageRequested <= Len(f_responses) + 1
    /\ f_pc = "loop" => f_page = Len(f_responses) + 1
    /\ \A k \in 1..(Len(f_responses) - 1) : f_responses[k].status = "returned"
    /\ (d_pc # "idle" \/ Len(d_http) > 0) =>
         /\ f_impl = "get_all_packages"
         /\ f_pc = "returned"
         /\ LastPageRequested = Len(f_responses)
         /\ d_input.packages = f_collected

\* a detail request was issued after two list pages, the first of them asked
\* for twice
C24_Witness ==
    /\ Len(d_http) > 0
    /\ LastPageRequested = 2
    /\ Len(f_requests) = 3
    /\ f_requests[2] = 1

----------------------------------------------------------------------------
\* The Redis repair scripts

\* what a key holds, its expiry left aside
Contents(entry) == [kind |-> entry.kind, fields |-> entry.fields, value |-> entry.value]

\* C28: in a run of fix_redis, an 'ortopedic:*' hash whose repair ended in an
\* error is still stored with the fields it had when the run started, and no
\* 'ortopedic:*' hash that was there at the start is missing afterwards.
C28_NoKeyLostOnError ==
    rd_script = "fix_redis" =>
        /\ \A key \in rd_failed : Contents(rd_store[key]) = Contents(rd_before[key])
        /\ \A key \in Keys(rd_before, <<"ortopedic">>) :
             rd_before[key].kind = "hash" => rd_store[key].kind = "hash"

\* C29: after a second run of a script on a store nothing else writes to,
\* every key holds what it held after the first run.
C29_SecondRunChangesNothing ==
    (rd_pc = "done" /\ rd_runs = 2) =>
        \A key \in DOMAIN rd_store : Contents(rd_store[key]) = Contents(rd_first[key])
====
